---- MODULE Spec2Model ----
(***************************************************************************)
(* Model of the dance_match pose-matching and scoring engine:              *)
(*   src/modules/pose_module.py   Pose, Pose_Sequence, compare_poses       *)
(*   src/modules/game_states.py   Play_Dance (countdown, dance, scoring)   *)
(*   src/modules/game.py          Game (state switching on returned keys)  *)
(*   src/modules/timer_module.py  Timer_Thread                             *)
(*   src/dance_maker.py           Dance_Maker (recording a dance)          *)
(*                                                                         *)
(* Numbers.  Distances are kept in hundredths (0.4 is 40), so that the     *)
(* mean of batch_size = 20 cosine distances, each a multiple of 0.2 for    *)
(* the landmark vectors used here, is an exact integer.  Times are in      *)
(* milliseconds.                                                           *)
(***************************************************************************)
EXTENDS Integers, Sequences, FiniteSets, TLC

VARIABLES
    poses,          \* Pose_Sequence.poses of the sequence under test
    time_between_poses_ms,  \* its time_between_poses_ms
    disk,           \* the file system: the file at each path, or None
    dances,         \* Game.dances: the Dance objects loaded, by number
    last_call,      \* the most recent operation applied and what it returned
    clock,          \* pygame.time.get_ticks(), in ms
    selected_state, \* Game_State_Manager.selected_state: None or Some(name)
    states,         \* Game_State_Manager.states: the state object of each name
    play,           \* the Play_Dance object registered as STATE_PLAY_DANCE
    pose_model,     \* that session's Pose_Landmarker_Model
    video,          \* dance.video, the dance's Video_Capture_Handler
    scoreboards,    \* every Scoreboard object created, in creation order
    last_tick,      \* what the most recent iteration of Game.run did
    messages,       \* the score messages returned by play sessions so far
    uncaught,       \* the exception that ended Game.run, if any
    budget,         \* how many bounded environment events have happened
    maker,          \* the Dance_Maker at work and its Timer_Thread, or None
    button          \* the Button_Base under test and its mouse, or None

vars == <<poses, time_between_poses_ms, disk, dances, last_call, clock, selected_state, states, play, pose_model, video,
          scoreboards, last_tick, messages, uncaught, budget, maker, button>>

game_vars == <<disk, dances, clock, selected_state, states, play, pose_model, video,
               scoreboards, last_tick, messages, uncaught, budget>>

\* Python's None, as the empty option; Some(v) is a value that is present
None == <<>>
Some(v) == <<v>>

(***************************************************************************)
(* Bounds of the model.                                                    *)
(***************************************************************************)
MaxPoses == 3           \* longest Pose_Sequence built by add_pose
MaxTimestamp == 3       \* largest timestamp_ms of a pose under test

(***************************************************************************)
(* Landmarks and poses.                                                    *)
(***************************************************************************)
\* landmark_pb2.NormalizedLandmark(x=..., y=..., z=..., visibility=..., presence=...)
NormalizedLandmark(x, y, z, visibility, presence) ==
    [class |-> "NormalizedLandmark", x |-> x, y |-> y, z |-> z,
     visibility |-> visibility, presence |-> presence]

Landmark(x, y, z) == NormalizedLandmark(x, y, z, 1, 1)

\* Pose.__init__: an object of class Pose
Pose(landmarks, timestamp_ms) ==
    [class |-> "Pose", landmarks |-> landmarks, timestamp_ms |-> timestamp_ms]

\* isinstance(value, Pose); the values that are not objects of a class of this
\* module (None, dicts, lists) have no class field
IsPose(value) == "class" \in DOMAIN value /\ value.class = "Pose"

\* landmark sets (one detected body each) used as inputs
BodyX == <<Landmark(1, 0, 0), Landmark(0, 1, 0)>>
BodyB == <<Landmark(3, 4, 0), Landmark(0, 1, 0)>>
BodyC == <<Landmark(-1, 0, 0), Landmark(0, 1, 0)>>
BodyOne == <<Landmark(0, 1, 0)>>

Abs(n) == IF n < 0 THEN -n ELSE n

(***************************************************************************)
(* Python's min(iterable, key=...): a left-to-right scan that replaces the *)
(* running best only by a strictly smaller key, so the first of several    *)
(* minimal elements is returned.  Returns an index of the sequence.        *)
(***************************************************************************)
KeepsBestLast(best_key, key) == key <= best_key

KeepsBest(best_key, key) == key < best_key

RECURSIVE MinScan(_, _, _)
MinScan(keys, i, best) ==
    IF i > Len(keys) THEN best
    ELSE MinScan(keys, i + 1, IF KeepsBest(keys[best], keys[i]) THEN i ELSE best)

PyMinIndex(keys) == MinScan(keys, 2, 1)

Raise(exc) == [kind |-> "raise", exc |-> exc]
Return(v) == [kind |-> "return", value |-> v]

\* a mutant: an empty sequence yields None instead of an error
get_closest_pose_at_or_none(ps, timestamp_ms) ==
    IF Len(ps) = 0 THEN Return(None)
    ELSE Return(ps[PyMinIndex([i \in 1..Len(ps) |-> Abs(ps[i].timestamp_ms - timestamp_ms)])])

\* Pose_Sequence.get_closest_pose_at: min() of an empty list raises ValueError
get_closest_pose_at(ps, timestamp_ms) ==
    IF Len(ps) = 0 THEN Raise("ValueError")
    ELSE Return(ps[PyMinIndex([i \in 1..Len(ps) |-> Abs(ps[i].timestamp_ms - timestamp_ms)])])

\* a mutant: a pose older than the last stored one is rejected
add_pose_ordered(ps, pose) ==
    IF ~IsPose(pose) THEN [poses |-> ps, ret |-> Raise("TypeError")]
    ELSE IF ps # <<>> /\ pose.timestamp_ms < ps[Len(ps)].timestamp_ms
    THEN [poses |-> ps, ret |-> Raise("ValueError")]
    ELSE [poses |-> Append(ps, pose), ret |-> Return(None)]

\* a mutant: the pose is put in front of the stored ones
add_pose_first(ps, pose) ==
    IF ~IsPose(pose) THEN [poses |-> ps, ret |-> Raise("TypeError")]
    ELSE [poses |-> <<pose>> \o ps, ret |-> Return(None)]

\* Pose_Sequence.add_pose on a sequence whose poses are ps: the poses it leaves
\* and what the call returns
add_pose(ps, pose) ==
    IF ~IsPose(pose) THEN [poses |-> ps, ret |-> Raise("TypeError")]
    ELSE [poses |-> Append(ps, pose), ret |-> Return(None)]

(***************************************************************************)
(* Serialization.  A dict is kept with its class, since the code tests it; *)
(* a list is a sequence.  Landmark fields are in ten-thousandths, so that  *)
(* rounding to 3 decimals is rounding to a multiple of 10.                 *)
(***************************************************************************)
Dict(items) == [class |-> "dict", items |-> items]

\* isinstance(value, dict)
IsDict(value) == "class" \in DOMAIN value /\ value.class = "dict"

\* key in d
HasKey(d, key) == key \in DOMAIN d.items

\* a mutant: the digits after the third decimal are cut off
Trunc3(v) == IF v >= 0 THEN 10 * (v \div 10) ELSE -(10 * ((-v) \div 10))

\* round(v, 3): to the nearest multiple of 0.001, a tie going to the even one
Round3(v) ==
    LET q == v \div 10
        r == v % 10
    IN  IF r < 5 THEN 10 * q
        ELSE IF r > 5 THEN 10 * (q + 1)
        ELSE IF q % 2 = 0 THEN 10 * q ELSE 10 * (q + 1)

\* the dict Pose.to_dict makes of one landmark
landmark_to_dict(lm) ==
    Dict([x |-> Round3(lm.x), y |-> Round3(lm.y), z |-> Round3(lm.z),
          visibility |-> Round3(lm.visibility), presence |-> Round3(lm.presence)])

\* Pose.to_dict
Pose_to_dict(pose) ==
    Dict([timestamp_ms |-> pose.timestamp_ms,
          landmarks |-> [i \in DOMAIN pose.landmarks |->
                            [j \in DOMAIN pose.landmarks[i] |->
                                landmark_to_dict(pose.landmarks[i][j])]]])

LandmarkKeys == {"x", "y", "z", "visibility", "presence"}

\* the NormalizedLandmark Pose.from_dict builds from the dict lm
landmark_from_dict(lm) ==
    NormalizedLandmark(lm.items.x, lm.items.y, lm.items.z,
                       lm.items.visibility, lm.items.presence)

\* a mutant: a missing timestamp_ms is read as 0, as pose_dict.get would
Pose_from_dict_lenient(pose_dict) ==
    IF ~IsDict(pose_dict) THEN Raise("ValueError")
    ELSE IF ~HasKey(pose_dict, "landmarks") THEN Raise("KeyError")
    ELSE LET sets == pose_dict.items.landmarks IN
        IF \E i \in DOMAIN sets : \E j \in DOMAIN sets[i] :
                \E key \in LandmarkKeys : ~HasKey(sets[i][j], key)
        THEN Raise("KeyError")
        ELSE Return(Pose([i \in DOMAIN sets |->
                            [j \in DOMAIN sets[i] |-> landmark_from_dict(sets[i][j])]],
                         IF HasKey(pose_dict, "timestamp_ms")
                         THEN pose_dict.items.timestamp_ms ELSE 0))

\* Pose.from_dict
Pose_from_dict(pose_dict) ==
    IF ~IsDict(pose_dict) THEN Raise("ValueError")
    ELSE IF ~HasKey(pose_dict, "landmarks") THEN Raise("KeyError")
    ELSE LET sets == pose_dict.items.landmarks IN
        IF \E i \in DOMAIN sets : \E j \in DOMAIN sets[i] :
                \E key \in LandmarkKeys : ~HasKey(sets[i][j], key)
        THEN Raise("KeyError")
        ELSE IF ~HasKey(pose_dict, "timestamp_ms") THEN Raise("KeyError")
        ELSE Return(Pose([i \in DOMAIN sets |->
                            [j \in DOMAIN sets[i] |-> landmark_from_dict(sets[i][j])]],
                         pose_dict.items.timestamp_ms))

\* Pose_Sequence.__init__
Pose_Sequence(interval_ms) ==
    [class |-> "Pose_Sequence", time_between_poses_ms |-> interval_ms, poses |-> <<>>]

\* Pose_Sequence.to_dict
to_dict(pose_sequence) ==
    Dict([time_between_poses_ms |-> pose_sequence.time_between_poses_ms,
          poses |-> [i \in DOMAIN pose_sequence.poses |->
                        Pose_to_dict(pose_sequence.poses[i])]])

\* the paths of the file system
Paths == {"dances/0/pose_sequence_data.json"}

\* the pose sequence file of the one dance folder
ThePath == CHOOSE path \in Paths : TRUE

NoFiles == [path \in Paths |-> None]

\* a file: the JSON text of a value, or text that is not JSON
JsonFile(value) == [format |-> "json", value |-> value]
NotJson == [format |-> "text"]

\* the body of the try block of load_from_json_file, applied to the file read
RECURSIVE load_poses(_, _, _)
load_poses(records, i, pose_sequence) ==
    IF i > Len(records) THEN Return(pose_sequence)
    ELSE LET pose == Pose_from_dict(records[i]) IN
        IF pose.kind = "raise" THEN pose
        ELSE load_poses(records, i + 1,
                        [pose_sequence EXCEPT
                            !.poses = add_pose(pose_sequence.poses, pose.value).poses])

load_try(file) ==
    IF file.format # "json" THEN Raise("JSONDecodeError")
    ELSE IF ~IsDict(file.value) THEN Raise("TypeError")
    ELSE IF ~HasKey(file.value, "time_between_poses_ms") THEN Raise("KeyError")
    ELSE IF ~HasKey(file.value, "poses") THEN Raise("KeyError")
    ELSE load_poses(file.value.items.poses, 1,
                    Pose_Sequence(file.value.items.time_between_poses_ms))

\* what a call of load_from_json_file did: ret is what left the call, opened
\* tells whether the file was opened, reported is the exception printed
Loaded(ret, opened, reported) == [ret |-> ret, opened |-> opened, reported |-> reported]

\* a mutant: the test for the file is made inside the try block
load_from_json_file_late(files, path) ==
    IF files[path] = None
    THEN Loaded(Return(None), FALSE, Some("FileNotFoundError"))
    ELSE LET try == load_try(files[path][1]) IN
        IF try.kind = "raise" THEN Loaded(Return(None), TRUE, Some(try.exc))
        ELSE Loaded(try, TRUE, None)

\* a mutant: the poses parsed before the failure are returned
load_from_json_file_partial(files, path) ==
    IF files[path] = None THEN Loaded(Raise("FileNotFoundError"), FALSE, None)
    ELSE LET try == load_try(files[path][1]) IN
        IF try.kind = "raise"
        THEN Loaded(Return(Pose_Sequence(0)), TRUE, Some(try.exc))
        ELSE Loaded(try, TRUE, None)

\* Pose_Sequence.load_from_json_file; files maps each path to the file there,
\* or to None
load_from_json_file(files, path) ==
    IF files[path] = None THEN Loaded(Raise("FileNotFoundError"), FALSE, None)
    ELSE LET try == load_try(files[path][1]) IN
        IF try.kind = "raise" THEN Loaded(Return(None), TRUE, Some(try.exc))
        ELSE Loaded(try, TRUE, None)

\* what a call of save_to_json_file did: the files it leaves, what left the
\* call and the exception printed
Saved(files, ret, reported) == [files |-> files, ret |-> ret, reported |-> reported]

\* the ways the write can go: open() fails, json.dump fails after open() has
\* truncated the file, or all is written
WriteOutcomes == {"open fails", "dump fails", "written"}

\* a mutant: the write is not guarded
save_to_json_file_unguarded(pose_sequence, files, path, outcome) ==
    IF outcome = "open fails" THEN Saved(files, Raise("OSError"), None)
    ELSE IF outcome = "dump fails"
    THEN Saved([files EXCEPT ![path] = Some(NotJson)], Raise("OSError"), None)
    ELSE Saved([files EXCEPT ![path] = Some(JsonFile(to_dict(pose_sequence)))],
               Return(None), None)

\* Pose_Sequence.save_to_json_file
save_to_json_file(pose_sequence, files, path, outcome) ==
    IF outcome = "open fails" THEN Saved(files, Return(None), Some("OSError"))
    ELSE IF outcome = "dump fails"
    THEN Saved([files EXCEPT ![path] = Some(NotJson)], Return(None), Some("OSError"))
    ELSE Saved([files EXCEPT ![path] = Some(JsonFile(to_dict(pose_sequence)))],
               Return(None), None)

(***************************************************************************)
(* compare_poses: DTW over the first landmark set of each pose with cosine *)
(* distance as the local cost.                                             *)
(***************************************************************************)
Dot(u, v) == u[1] * v[1] + u[2] * v[2] + u[3] * v[3]

\* exact square root of the perfect squares that arise from the input vectors
MaxRoot == 250
Roots == [n \in {r * r : r \in 0..MaxRoot} |-> CHOOSE r \in 0..MaxRoot : r * r = n]
ISqrt(n) == Roots[n]

\* scipy.spatial.distance.cosine, in hundredths: 1 - u.v / (|u| |v|)
cosine(u, v) == 100 - ((100 * Dot(u, v)) \div ISqrt(Dot(u, u) * Dot(v, v)))

Min3(a, b, c) == IF a <= b /\ a <= c THEN a ELSE IF b <= c THEN b ELSE c

\* fastdtw's exact dtw (taken for series shorter than radius + 2 = 3 points):
\* D[i,j] = cost(i,j) + min(D[i-1,j], D[i,j-1], D[i-1,j-1]), D[0,0] = 0
RECURSIVE DtwCost(_, _, _, _)
DtwCost(x, y, i, j) ==
    LET dt == cosine(x[i], y[j]) IN
    IF i = 1 /\ j = 1 THEN dt
    ELSE IF i = 1 THEN dt + DtwCost(x, y, 1, j - 1)
    ELSE IF j = 1 THEN dt + DtwCost(x, y, i - 1, 1)
    ELSE dt + Min3(DtwCost(x, y, i - 1, j), DtwCost(x, y, i, j - 1),
                   DtwCost(x, y, i - 1, j - 1))

fastdtw(x, y) == DtwCost(x, y, Len(x), Len(y))

\* a mutant: a landmark that is not visible counts as the origin
PointsVisible(landmark_set) ==
    [k \in 1..Len(landmark_set) |->
        IF landmark_set[k].visibility = 0 THEN <<0, 0, 0>>
        ELSE <<landmark_set[k].x, landmark_set[k].y, landmark_set[k].z>>]

\* [[lm.x, lm.y, lm.z] for lm in pose.landmarks[0]]
Points(landmark_set) ==
    [k \in 1..Len(landmark_set) |->
        <<landmark_set[k].x, landmark_set[k].y, landmark_set[k].z>>]

\* the try block of compare_poses: pose.landmarks[0] of a pose without
\* landmark sets raises IndexError
compare_poses_try(pose1, pose2) ==
    IF Len(pose1.landmarks) = 0 \/ Len(pose2.landmarks) = 0
    THEN Raise("IndexError")
    ELSE Return(Some(fastdtw(Points(pose1.landmarks[1]), Points(pose2.landmarks[1]))))

\* compare_poses without its except clause
compare_poses_uncaught(pose1, pose2) == compare_poses_try(pose1, pose2)

\* compare_poses: the bare except turns whatever the try block raises into None
compare_poses(pose1, pose2) ==
    LET r == compare_poses_try(pose1, pose2) IN
    IF r.kind = "raise" THEN Return(None) ELSE r

\* stands for the float nan in a returned distance; no distance is negative
NaN == -1

\* a point (0, 0, 0): uu * vv is 0 and scipy's cosine divides 0.0 by 0.0
Degenerate(points) == \E k \in DOMAIN points : Dot(points[k], points[k]) = 0

\* how the installed fastdtw treats a nan cost: it sums up to nan, or its path
\* search follows the nan out of the cost matrix and fails
Builds == {"nan is summed", "path search fails"}

\* compare_poses with the given build of fastdtw.  With a degenerate point the
\* local cost is nan and no exception is raised by scipy; where fastdtw fails
\* on it the bare except returns None.
compare_poses_with(build, pose1, pose2) ==
    IF /\ Len(pose1.landmarks) > 0
       /\ Len(pose2.landmarks) > 0
       /\ (Degenerate(Points(pose1.landmarks[1])) \/ Degenerate(Points(pose2.landmarks[1])))
    THEN IF build = "path search fails" THEN Return(None) ELSE Return(Some(NaN))
    ELSE compare_poses(pose1, pose2)

\* what a call of compare_poses can return
compare_poses_results(pose1, pose2) ==
    {compare_poses_with(build, pose1, pose2) : build \in Builds}

(***************************************************************************)
(* The dance that is played: its reference pose sequence and its video.    *)
(***************************************************************************)
VideoLengthMs == 24000  \* the reference video yields frames at positions below this
MaxGlitches == 1        \* iterations of Game.run that take 2000 ms instead of
                        \* 1000, or in which the webcam yields no frame
MaxResults == 1         \* detector results delivered to one play session
MaxMenuTicks == 4       \* iterations of Game.run spent outside a play session

\* the dance's Pose_Sequence.poses (Dance.pose_sequence), as loaded from its file
\* the recording dance_maker saved for the dance: a body at 0 ms and at
\* 3000 ms, and a frame without a detected body at 2000 ms
RecordedBody == <<NormalizedLandmark(30, 40, 0, 10000, 10000),
                  NormalizedLandmark(0, 10, 0, 10000, 10000)>>
RecordedDance ==
    [Pose_Sequence(1000) EXCEPT
        !.poses = <<Pose(<<RecordedBody>>, 0), Pose(<<>>, 2000),
                    Pose(<<RecordedBody>>, 3000)>>]
DanceFile == JsonFile(to_dict(RecordedDance))
DanceFiles == [path \in Paths |-> Some(DanceFile)]

\* Dance.__init__
Dance(name, pose_sequence) == [name |-> name, pose_sequence |-> pose_sequence]

\* Dance_Loader.load_pose_sequence: ret is the sequence returned or the
\* exception raised
load_pose_sequence(files, file_path) == load_from_json_file(files, file_path).ret

\* Dance_Loader.process_folder, for the pose sequence: os.listdir names only
\* files that exist; raised is an exception that leaves it
process_folder(files, folder_path) ==
    IF files[folder_path] = None THEN [pose_sequence |-> None, raised |-> None]
    ELSE LET loaded == load_pose_sequence(files, folder_path) IN
        IF loaded.kind = "raise"
        THEN [pose_sequence |-> None, raised |-> Some(loaded.exc)]
        ELSE [pose_sequence |-> loaded.value, raised |-> None]

\* Dance_Loader.load_dance_data followed by the enumerate of Game.__init__:
\* one Dance for each folder, numbered from 0
load_dance_data(files) ==
    [id \in {0} |-> Dance("0", process_folder(files, ThePath).pose_sequence)]

\* the poses of the dance as loaded from DanceFile
DancePoses == load_from_json_file(DanceFiles, ThePath).ret.value.poses

\* the dances of Game.dances, keyed by id
DanceIds == DOMAIN dances

\* what a detector result can hold in pose_landmarks
LiveLandmarks == {<<>>, <<BodyX>>}

\* Video_Capture_Handler.set_position_msec on a file capture
set_position_msec(v, timestamp_ms) ==
    IF v.opened THEN [v EXCEPT !.pos_msec = timestamp_ms] ELSE v

\* the success flag of Video_Capture_Handler.read_frame: cap.read()
read_frame_ret(v) == v.opened /\ v.pos_msec < VideoLengthMs

\* Video_Capture_Handler.release
release(v) == [opened |-> FALSE, pos_msec |-> 0]

(***************************************************************************)
(* Play_Dance.                                                             *)
(***************************************************************************)
countdown_length_ms == 4000
batch_size == 20

\* Play_Dance.__init__ at time now; session numbers the objects constructed and
\* dance is the number of the Dance object the session refers to
Play_Dance(session, dance, now) ==
    [session |-> session,
     dance |-> dance,
     countdown_active |-> TRUE,
     countdown_start_time_ms |-> now,
     countdown_time_remaining |-> countdown_length_ms,
     countdown_text |-> "",
     dance_active |-> FALSE,
     dance_start_time_ms |-> 0,
     current_distances |-> <<>>,
     batch_averages |-> <<>>,
     dist |-> 1000,
     current_batch_average |-> 200]

\* mp.Image made of the webcam frame that was read at timestamp_ms
Image(timestamp_ms) == [timestamp_ms |-> timestamp_ms]

\* the PoseLandmarkerResult of a detection
Result(pose_landmarks) == [pose_landmarks |-> pose_landmarks]

\* Pose_Landmarker_Model.__init__ and initialize.  in_flight is the frame that
\* detect_async handed to the landmarker and that it has not answered yet.
Pose_Landmarker_Model == [latest_result |-> None, latest_image |-> None, in_flight |-> None]

\* a mutant: a result is stored only while the slot is empty
result_callback_first(pm, result, output_image) ==
    IF pm.latest_result = None
    THEN [pm EXCEPT !.latest_result = Some(result), !.latest_image = Some(output_image),
                    !.in_flight = None]
    ELSE [pm EXCEPT !.in_flight = None]

\* Pose_Landmarker_Model._result_callback, called by the landmarker with the
\* result for the frame in flight and that frame's image
result_callback(pm, result, output_image) ==
    [pm EXCEPT !.latest_result = Some(result), !.latest_image = Some(output_image),
               !.in_flight = None]

\* Pose_Landmarker_Model.get_latest_result
get_latest_result(pm) == pm.latest_result

\* the sequences over S of length at most n
RECURSIVE SeqsUpTo(_, _)
SeqsUpTo(S, n) ==
    IF n = 0 THEN {<<>>}
    ELSE LET shorter == SeqsUpTo(S, n - 1) IN
         shorter \cup {Append(q, x) : q \in shorter, x \in S}

RECURSIVE Sum(_)
Sum(seq) == IF seq = <<>> THEN 0 ELSE Head(seq) + Sum(Tail(seq))

\* the test of _track_performance
BatchDue(p) == Len(p.current_distances) >= batch_size

\* a mutant: the displayed average follows the unfinished buffer
track_performance_eager(p) ==
    IF p.current_distances = <<>> THEN p
    ELSE LET batch_average == Sum(p.current_distances) \div Len(p.current_distances) IN
         IF BatchDue(p)
         THEN [p EXCEPT !.batch_averages = Append(@, batch_average),
                        !.current_distances = <<>>,
                        !.current_batch_average = batch_average]
         ELSE [p EXCEPT !.current_batch_average = batch_average]

\* a mutant: a buffer of ten distances is dropped
track_performance_dropping(p) ==
    IF BatchDue(p)
    THEN LET batch_average == Sum(p.current_distances) \div Len(p.current_distances) IN
         [p EXCEPT !.batch_averages = Append(@, batch_average),
                   !.current_distances = <<>>,
                   !.current_batch_average = batch_average]
    ELSE IF Len(p.current_distances) = 10 THEN [p EXCEPT !.current_distances = <<>>]
    ELSE p

\* Play_Dance._track_performance
track_performance(p) ==
    IF BatchDue(p)
    THEN LET batch_average == Sum(p.current_distances) \div Len(p.current_distances) IN
         [p EXCEPT !.batch_averages = Append(@, batch_average),
                   !.current_distances = <<>>,
                   !.current_batch_average = batch_average]
    ELSE p

\* average < bound for average = total / count, decided without rounding
MeanBelow(total, count, bound) == total < bound * count

\* a mutant: the 0.4 bound is inclusive
get_final_score_inclusive(batch_averages) ==
    IF batch_averages = <<>> THEN 0
    ELSE LET total == Sum(batch_averages)
             count == Len(batch_averages) IN
         IF total <= 40 * count THEN 3
         ELSE IF MeanBelow(total, count, 90) THEN 2
         ELSE IF MeanBelow(total, count, 160) THEN 1
         ELSE 0

\* Play_Dance.get_final_score: it reads self.batch_averages only
get_final_score(batch_averages) ==
    IF batch_averages = <<>> THEN 0
    ELSE LET total == Sum(batch_averages)
             count == Len(batch_averages) IN
         IF MeanBelow(total, count, 40) THEN 3
         ELSE IF MeanBelow(total, count, 90) THEN 2
         ELSE IF MeanBelow(total, count, 160) THEN 1
         ELSE 0

\* a mutant: starting the dance switches the countdown back on
start_dance_recounting(p, v, now) ==
    [play |-> [p EXCEPT !.dance_active = TRUE, !.dance_start_time_ms = now,
                        !.countdown_active = TRUE],
     video |-> set_position_msec(v, 0)]

\* a mutant: starting the dance opens the video again
start_dance_reopening(p, v, now) ==
    [play |-> [p EXCEPT !.dance_active = TRUE, !.dance_start_time_ms = now],
     video |-> [opened |-> TRUE, pos_msec |-> 0]]

\* Play_Dance.start_dance
start_dance(p, v, now) ==
    [play |-> [p EXCEPT !.dance_active = TRUE, !.dance_start_time_ms = now],
     video |-> set_position_msec(v, 0)]

\* a mutant: the countdown also ends with no time remaining
CountdownOverAtZero(countdown_time_remaining) == countdown_time_remaining <= 0

\* the test of update_countdown that ends the countdown
CountdownOver(countdown_time_remaining) == countdown_time_remaining < 0

\* Play_Dance.update_countdown
update_countdown(p, v, now) ==
    LET elapsed_time == now - p.countdown_start_time_ms
        remaining == countdown_length_ms - elapsed_time
        q == [p EXCEPT !.countdown_time_remaining = remaining] IN
    IF CountdownOver(remaining)
    THEN start_dance([q EXCEPT !.countdown_active = FALSE], v, now)
    ELSE IF remaining < 1000
    THEN [play |-> [q EXCEPT !.countdown_text = "GO"], video |-> v]
    ELSE [play |-> [q EXCEPT !.countdown_text = ToString(remaining \div 1000)],
          video |-> v]

\* a mutant: handing a frame to the detector empties the result slot
process_frame_consuming(pm, timestamp_ms) ==
    IF pm.in_flight = None
    THEN [pm EXCEPT !.in_flight = Some(Image(timestamp_ms)), !.latest_result = None]
    ELSE [pm EXCEPT !.latest_result = None]

\* Pose_Landmarker_Model.process_frame: detect_async hands the frame to the
\* detector, which answers later through _result_callback
\* (in LIVE_STREAM mode a frame that arrives while the landmarker is busy is
\* ignored)
process_frame(pm, timestamp_ms) ==
    IF pm.in_flight = None THEN [pm EXCEPT !.in_flight = Some(Image(timestamp_ms))]
    ELSE pm

\* a mutant: the latest result is scored also when the webcam yields no frame
ComparesWithoutFrame(webcam_ret, result) == result # None

\* "if webcam_ret:" and "if result is not None:" of update_dance
Compares(webcam_ret, result) == webcam_ret /\ result # None

\* self.dance_pose_sequence = self.dance.get_pose_sequence()
dance_pose_sequence(p) == dances[p.dance].pose_sequence

\* Play_Dance.update_dance.  ret is TRUE where the code returns True (the video
\* has ended) and FALSE where it returns None; exc is the exception that leaves
\* update_dance, if any; compared tells whether compare_poses was called and
\* appended is the distance appended to current_distances, if any; web_pose
\* is the live pose built from the detector result, if one was built, and
\* video_pose the reference pose it was compared with.
update_dance(p, pm, v, now, webcam_ret) ==
    LET current_time_ms == now - p.dance_start_time_ms
        current_video_timestamp_ms == v.pos_msec
        v1 == set_position_msec(v, current_time_ms)
        video_ret == read_frame_ret(v1)
        pm1 == IF webcam_ret THEN process_frame(pm, current_time_ms) ELSE pm
        result == get_latest_result(pm1)
        compared == Compares(webcam_ret, result)
        video_pose == IF dance_pose_sequence(p) = None THEN Raise("AttributeError")
                      ELSE get_closest_pose_at(dance_pose_sequence(p).poses,
                                               current_video_timestamp_ms)
        web_pose == Pose(result[1].pose_landmarks, current_time_ms)
        dist == compare_poses(web_pose, video_pose.value)
    IN
    IF compared /\ video_pose.kind = "raise"
    THEN [play |-> p, pose_model |-> pm1, video |-> v1, ret |-> FALSE,
          video_ret |-> video_ret, compared |-> FALSE, appended |-> None,
          web_pose |-> Some(web_pose), video_pose |-> None,
          exc |-> Some(video_pose.exc)]
    ELSE IF compared /\ dist.kind = "raise"
    THEN [play |-> p, pose_model |-> pm1, video |-> v1, ret |-> FALSE,
          video_ret |-> video_ret, compared |-> TRUE, appended |-> None,
          web_pose |-> Some(web_pose), video_pose |-> Some(video_pose.value),
          exc |-> Some(dist.exc)]
    ELSE LET accepted == compared /\ dist.value # None
             p1 == IF accepted
                   THEN [p EXCEPT !.dist = dist.value[1],
                                  !.current_distances = Append(@, dist.value[1])]
                   ELSE p
         IN
         [play |-> IF video_ret THEN track_performance(p1) ELSE p1,
          pose_model |-> pm1, video |-> v1, ret |-> ~video_ret,
          video_ret |-> video_ret, compared |-> compared,
          appended |-> IF accepted THEN dist.value ELSE None,
          web_pose |-> IF compared THEN Some(web_pose) ELSE None,
          video_pose |-> IF compared THEN Some(video_pose.value) ELSE None,
          exc |-> None]

\* f"{DANCE_SCORE_KEY}{int(score)}": a key is kept as the list of its parts
\* between the "." separators, which is what str.split(".") makes of it
ScoreMessage(score) == <<"DANCE_SCORE", ToString(score)>>

\* a mutant: the unfinished buffer is scored as if it were a completed batch
final_score_with_buffer(p) ==
    get_final_score(IF p.current_distances = <<>> THEN p.batch_averages
                    ELSE Append(p.batch_averages,
                                Sum(p.current_distances) \div Len(p.current_distances)))

\* score = self.get_final_score()
final_score(p) == get_final_score(p.batch_averages)

\* Play_Dance.update.  returned is the value handed back to Game.run.
update(p, pm, v, now, webcam_ret) ==
    LET c == IF p.countdown_active THEN update_countdown(p, v, now)
             ELSE [play |-> p, video |-> v]
        idle == [play |-> c.play, pose_model |-> pm, video |-> c.video, ret |-> FALSE,
                 video_ret |-> FALSE, compared |-> FALSE, appended |-> None,
                 web_pose |-> None, video_pose |-> None, exc |-> None]
        d == IF c.play.dance_active
             THEN update_dance(c.play, pm, c.video, now, webcam_ret)
             ELSE idle
    IN
    [play |-> d.play, pose_model |-> d.pose_model,
     video |-> IF d.ret THEN release(d.video) ELSE d.video,
     returned |-> IF d.ret THEN Some(ScoreMessage(final_score(d.play))) ELSE None,
     danced |-> c.play.dance_active, video_ret |-> d.video_ret,
     compared |-> d.compared, appended |-> d.appended, web_pose |-> d.web_pose,
     video_pose |-> d.video_pose, exc |-> d.exc]

(***************************************************************************)
(* Game: the state manager and the main loop.                              *)
(***************************************************************************)
\* Scoreboard.__init__: score is the text taken from the returned key
Scoreboard(session, score) == [session |-> session, score |-> score]

\* int(dance_id) for the decimal text of a small number
ParseInt(text) == CHOOSE n \in 0..9 : ToString(n) = text

\* a str, and an int, which is not a str (held by its decimal text)
Str(text) == [type |-> "str", value |-> text]
NotStr(text) == [type |-> "int", value |-> text]

\* a state object: an instance of the subclass named of Game_State; ref tells
\* the instances of one class apart
State(of, ref) == [class |-> "Game_State", of |-> of, ref |-> ref]

\* Game_State_Manager.__init__
Game_State_Manager == [states |-> <<>>, selected_state |-> None]

\* self.states[name] = state
Put(dict, key, state) == (key :> state) @@ dict

\* Game_State_Manager.add_state; m holds states and selected_state
add_state(m, name, state) ==
    IF name.type # "str" THEN [manager |-> m, ret |-> Raise("ValueError")]
    ELSE IF state.class # "Game_State" THEN [manager |-> m, ret |-> Raise("ValueError")]
    ELSE [manager |-> [m EXCEPT !.states = Put(@, name.value, state)],
          ret |-> Return(None)]

\* "name in self.states"
Registered(m, name) == name.type = "str" /\ name.value \in DOMAIN m.states

\* a mutant: a name that was never added is selected all the same
set_state_unchecked(m, name) ==
    IF name.type # "str" THEN [manager |-> m, ret |-> Raise("ValueError")]
    ELSE [manager |-> [m EXCEPT !.selected_state = Some(name.value)],
          ret |-> Return(None)]

\* Game_State_Manager.set_state
set_state(m, name) ==
    IF ~Registered(m, name) THEN [manager |-> m, ret |-> Raise("ValueError")]
    ELSE [manager |-> [m EXCEPT !.selected_state = Some(name.value)],
          ret |-> Return(None)]

\* "not self.selected_state": None and the empty str are false
Falsy(selected) == selected = None \/ selected = Some("")

\* Game_State_Manager._check_selected_state
check_selected_state(m) ==
    IF Falsy(m.selected_state) THEN Raise("RuntimeError")
    ELSE IF m.selected_state[1] \notin DOMAIN m.states THEN Raise("RuntimeError")
    ELSE Return(None)

\* Game_State_Manager.handle_events, update and render: the state object whose
\* method is called, or the exception raised before any is
dispatch(m) ==
    IF check_selected_state(m).kind = "raise" THEN check_selected_state(m)
    ELSE Return(m.states[m.selected_state[1]])

\* the fields of the game that Game._handle_state_manager_returned_value may set
GameFields(sel, st, p, pm, sb, un) ==
    [selected_state |-> sel, states |-> st, play |-> p, pose_model |-> pm,
     scoreboards |-> sb, uncaught |-> un]

\* isinstance(returned_value, str): a str is kept as the list of its parts
\* between the "." separators, of which there is at least one; a value that
\* is not a str is kept as the empty list
NotAStr == <<>>
IsStr(returned_value) == returned_value # NotAStr

\* a mutant: every dance id counts as loaded
InDancesAlways(g, dance_id) == TRUE

\* "if dance_id in self.dances:"
InDances(g, dance_id) == dance_id \in DanceIds

\* self.state_manager.set_state(name) in the game: an exception it raises
\* leaves Game.run
Selected(g, name) ==
    LET r == set_state(g, Str(name)) IN
    IF r.ret.kind = "raise" THEN [g EXCEPT !.uncaught = Some(r.ret.exc)]
    ELSE r.manager

\* Game._create_states
create_states ==
    add_state(add_state(Game_State_Manager, Str("STATE_MAIN_MENU"),
                        State("Main_Menu", 0)).manager,
              Str("STATE_DANCE_SELECTION"), State("Dance_Selection", 0)).manager

\* Game._handle_state_manager_returned_value; g holds the fields as the update
\* left them, returned_value is None or Some(key)
handle_returned_value(g, returned_value, now) ==
    IF returned_value = None THEN g
    ELSE IF ~IsStr(returned_value[1]) THEN g
    ELSE LET key == returned_value[1] IN
        IF key = <<"STATE_MAIN_MENU">> \/ key = <<"STATE_DANCE_SELECTION">>
        THEN Selected(g, key[1])
        ELSE IF key[1] = "PLAY_DANCE"
        THEN IF InDances(g, ParseInt(key[2]))
             THEN LET p == Play_Dance(g.play.session + 1, ParseInt(key[2]), now)
                      added == add_state(g, Str("STATE_PLAY_DANCE"),
                                         State("Play_Dance", p.session)).manager IN
                  Selected([added EXCEPT !.play = p,
                                         !.pose_model = Pose_Landmarker_Model],
                           "STATE_PLAY_DANCE")
             ELSE g
        ELSE IF key[1] = "DANCE_SCORE"
        THEN LET sb == Append(g.scoreboards, Scoreboard(g.play.session, key[2]))
                 added == add_state(g, Str("STATE_SCOREBOARD"),
                                    State("Scoreboard", Len(sb))).manager IN
             Selected([added EXCEPT !.scoreboards = sb], "STATE_SCOREBOARD")
        ELSE IF key = <<"QUIT">>
        THEN [g EXCEPT !.uncaught = Some("SystemExit")]
        ELSE g

InitGameWith(files) ==
    /\ disk = files
    /\ dances = load_dance_data(files)
    /\ clock = 0
    /\ selected_state = set_state(create_states, Str("STATE_MAIN_MENU")).manager.selected_state
    /\ states = create_states.states
    /\ play = [session |-> 0]
    /\ pose_model = Pose_Landmarker_Model
    /\ video = [opened |-> TRUE, pos_msec |-> 0]
    /\ scoreboards = <<>>
    /\ last_tick = [state |-> "none"]
    /\ messages = <<>>
    /\ uncaught = None
    /\ budget = [glitches |-> 0, results |-> 0, menu |-> 0]
    /\ maker = None
    /\ button = None

InitGame == InitGameWith(DanceFiles)

Init ==
    /\ poses = <<>>
    /\ time_between_poses_ms = 0
    /\ last_call = [op |-> "init"]
    /\ InitGame

\* the time one iteration of Game.run takes: clock.tick(FPS)
TickMs == {1000, 2000}
Slow(dt) == dt = 2000
Glitches(dt, webcam_ret) == IF Slow(dt) \/ ~webcam_ret THEN 1 ELSE 0

\* the keys the buttons of each menu state put into button_callback_queue
MenuKeys(state) ==
    IF state = "STATE_MAIN_MENU" THEN {<<"STATE_DANCE_SELECTION">>, <<"QUIT">>}
    ELSE IF state = "STATE_DANCE_SELECTION"
    THEN {<<"STATE_MAIN_MENU">>} \cup {<<"PLAY_DANCE", ToString(id)>> : id \in DanceIds}
    ELSE {<<"STATE_DANCE_SELECTION">>}

\* one iteration of Game.run while a menu state (Main_Menu, Dance_Selection or
\* Scoreboard) is selected: its update returns None or the key of a button
Iteration(state, returned_values) ==
    /\ uncaught = None
    /\ selected_state = Some(state)
    /\ budget.menu < MaxMenuTicks
    /\ \E dt \in TickMs, returned_value \in returned_values :
        /\ Slow(dt) => budget.glitches < MaxGlitches
        /\ clock' = clock + dt
        /\ \E g \in {handle_returned_value(
                        GameFields(selected_state, states, play, pose_model,
                                   scoreboards, uncaught),
                        returned_value, clock + dt)} :
            /\ selected_state' = g.selected_state
            /\ states' = g.states
            /\ play' = g.play
            /\ pose_model' = g.pose_model
            /\ scoreboards' = g.scoreboards
            /\ uncaught' = g.uncaught
            /\ budget' = [budget EXCEPT
                            !.menu = @ + 1,
                            !.glitches = @ + Glitches(dt, TRUE),
                            !.results = IF g.play # play THEN 0 ELSE @]
        /\ last_tick' = [state |-> state, returned |-> returned_value]
    /\ UNCHANGED <<button, maker, poses, time_between_poses_ms, disk, dances, last_call, video, messages>>

MenuTick(state) == Iteration(state, {None} \cup {Some(k) : k \in MenuKeys(state)})

TickMainMenu == MenuTick("STATE_MAIN_MENU")
TickDanceSelection == MenuTick("STATE_DANCE_SELECTION")
TickScoreboard == MenuTick("STATE_SCOREBOARD")

\* the frames the detector holds: a frame that it does not answer any more
\* (results of the session have all been delivered) is as good as dropped
InFlight(pm, results) ==
    IF results < MaxResults THEN pm ELSE [pm EXCEPT !.in_flight = None]

\* one iteration of Game.run while the play session is selected:
\* Play_Dance.update, then Game._handle_state_manager_returned_value
TickPlayDance ==
    /\ uncaught = None
    /\ selected_state = Some("STATE_PLAY_DANCE")
    /\ \E dt \in TickMs, webcam_ret \in BOOLEAN :
        /\ Glitches(dt, webcam_ret) > 0 => budget.glitches < MaxGlitches
        /\ clock' = clock + dt
        /\ \E u \in {update(play, pose_model, video, clock + dt, webcam_ret)} :
           \E g \in {handle_returned_value(
                        GameFields(selected_state, states, u.play, u.pose_model,
                                   scoreboards, u.exc),
                        u.returned, clock + dt)} :
            /\ selected_state' = g.selected_state
            /\ states' = g.states
            /\ play' = g.play
            /\ pose_model' = InFlight(g.pose_model, budget.results)
            /\ scoreboards' = g.scoreboards
            /\ uncaught' = g.uncaught
            /\ video' = u.video
            /\ messages' = IF u.returned = None THEN messages
                           ELSE Append(messages, [session |-> play.session,
                                                  key |-> u.returned[1]])
            /\ last_tick' = [state |-> "STATE_PLAY_DANCE", pre |-> play,
                             pre_video |-> video,
                             elapsed |-> clock + dt - play.countdown_start_time_ms,
                             webcam_ret |-> webcam_ret,
                             result |-> u.pose_model.latest_result,
                             image |-> u.pose_model.latest_image,
                             web_pose |-> u.web_pose,
                             video_pose |-> u.video_pose,
                             danced |-> u.danced, video_ret |-> u.video_ret,
                             compared |-> u.compared, appended |-> u.appended,
                             returned |-> u.returned]
            /\ budget' = [budget EXCEPT !.glitches = @ + Glitches(dt, webcam_ret)]
    /\ UNCHANGED <<button, maker, poses, time_between_poses_ms, disk, dances, last_call>>

\* Pose_Landmarker_Model._result_callback, run by the detector for a frame that
\* process_frame handed to it
DetectorCallback ==
    /\ uncaught = None
    /\ pose_model.in_flight # None
    /\ budget.results < MaxResults
    /\ \E landmarks \in LiveLandmarks :
        pose_model' = result_callback(pose_model, Result(landmarks),
                                      pose_model.in_flight[1])
    /\ budget' = [budget EXCEPT !.results = @ + 1]
    /\ UNCHANGED <<button, maker, poses, time_between_poses_ms, disk, dances, last_call, clock,
                   selected_state, states, play, video,
                   scoreboards, last_tick, messages, uncaught>>

Next ==
    \/ TickMainMenu
    \/ TickDanceSelection
    \/ TickScoreboard
    \/ TickPlayDance
    \/ DetectorCallback

Spec == Init /\ [][Next]_vars


(***************************************************************************)
(* Pose_Sequence under test: add_pose and get_closest_pose_at.             *)
(***************************************************************************)
TestLandmarks == {<<>>, <<BodyOne>>}
TestPoses == {Pose(l, t) : l \in TestLandmarks, t \in 0..MaxTimestamp}
TestQueries == 0..(MaxTimestamp + 1)

InitSeq ==
    /\ poses = <<>>
    /\ time_between_poses_ms = 0
    /\ last_call = [op |-> "init"]
    /\ InitGame

\* values that are not Pose objects: None and the dict of a pose
TestNonPoses == {None, Dict([timestamp_ms |-> 0, landmarks |-> <<>>])}

\* a call of add_pose
AddPose ==
    \E pose \in TestPoses \cup TestNonPoses :
        /\ IsPose(pose) => Len(poses) < MaxPoses
        /\ \E r \in {add_pose(poses, pose)} :
            /\ poses' = r.poses
            /\ last_call' = [op |-> "add_pose", pre |-> poses, arg |-> pose,
                             ret |-> r.ret]
        /\ UNCHANGED <<button, maker, time_between_poses_ms, game_vars>>

\* a call of get_closest_pose_at: it reads self.poses and assigns nothing
GetClosest ==
    \E t \in TestQueries :
        /\ last_call' = [op |-> "get_closest_pose_at", pre |-> poses, arg |-> t,
                         ret |-> get_closest_pose_at(poses, t)]
        /\ UNCHANGED <<button, maker, poses, time_between_poses_ms, game_vars>>

NextSeq == AddPose \/ GetClosest

SpecSeq == InitSeq /\ [][NextSeq]_vars

(***************************************************************************)
(* compare_poses under test.                                               *)
(***************************************************************************)
\* a body with a landmark at the origin
BodyZero == <<Landmark(0, 0, 0), Landmark(0, 1, 0)>>

\* the landmarks of BodyX, hidden or absent
BodyXFaint == <<NormalizedLandmark(1, 0, 0, 0, 0), NormalizedLandmark(0, 1, 0, 0, 1)>>

ComparedLandmarks ==
    {<<>>, <<BodyX>>, <<BodyB>>, <<BodyC>>, <<BodyOne>>, <<BodyX, BodyC>>, <<BodyZero>>,
     <<BodyXFaint>>}
ComparedPoses == {Pose(l, t) : l \in ComparedLandmarks, t \in 0..1}

\* the build of fastdtw is one of Builds and stays what it is
InitCompare ==
    /\ poses = <<>>
    /\ time_between_poses_ms = 0
    /\ \E build \in Builds : last_call = [op |-> "init", build |-> build]
    /\ InitGame

\* a call of compare_poses
ComparePoses ==
    \E p1 \in ComparedPoses, p2 \in ComparedPoses :
        /\ compare_poses_with(last_call.build, p1, p2) \in compare_poses_results(p1, p2)
        /\ last_call' = [op |-> "compare_poses", build |-> last_call.build,
                         pose1 |-> p1, pose2 |-> p2,
                         ret |-> compare_poses_with(last_call.build, p1, p2)]
        /\ UNCHANGED <<button, maker, poses, time_between_poses_ms, game_vars>>

NextCompare == ComparePoses

SpecCompare == InitCompare /\ [][NextCompare]_vars

(***************************************************************************)
(* get_final_score under test, on sessions with any accumulator contents.  *)
(***************************************************************************)
MaxBatches == 2         \* longest list of completed batch averages under test

\* batch averages around the bounds 0.4, 0.9 and 1.6
TestAverages == {0, 10, 20, 39, 40, 41, 50, 60, 89, 90, 91, 100, 150, 159, 160, 161, 200}
TestBuffers == {<<>>, <<0>>, <<1000, 1000>>}


InitScore ==
    /\ poses = <<>>
    /\ time_between_poses_ms = 0
    /\ disk = DanceFiles
    /\ dances = load_dance_data(DanceFiles)
    /\ last_call = [op |-> "init"]
    /\ clock = 0
    /\ selected_state = Some("STATE_PLAY_DANCE")
    /\ states = add_state(create_states, Str("STATE_PLAY_DANCE"),
                          State("Play_Dance", 1)).manager.states
    /\ \E avgs \in SeqsUpTo(TestAverages, MaxBatches), buffer \in TestBuffers :
        play = [Play_Dance(1, 0, 0) EXCEPT
                    !.countdown_active = FALSE, !.dance_active = TRUE,
                    !.batch_averages = avgs,
                    !.current_distances = buffer,
                    !.current_batch_average = IF avgs = <<>> THEN 200
                                              ELSE avgs[Len(avgs)]]
    /\ pose_model = Pose_Landmarker_Model
    /\ video = [opened |-> TRUE, pos_msec |-> 0]
    /\ scoreboards = <<>>
    /\ last_tick = [state |-> "none"]
    /\ messages = <<>>
    /\ uncaught = None
    /\ budget = [glitches |-> 0, results |-> 0, menu |-> 0]
    /\ maker = None
    /\ button = None

\* a call of get_final_score on the session
GetFinalScore ==
    /\ last_call.op = "init"
    /\ last_call' = [op |-> "get_final_score", ret |-> final_score(play)]
    /\ UNCHANGED <<button, maker, poses, time_between_poses_ms, game_vars>>

NextScore == GetFinalScore

SpecScore == InitScore /\ [][NextScore]_vars

(***************************************************************************)
(* Serialization under test: Pose.from_dict, save_to_json_file and         *)
(* load_from_json_file on a sequence and on files of every shape.          *)
(***************************************************************************)
MaxFilePoses == 2       \* longest Pose_Sequence saved and loaded

\* landmarks with digits beyond the third decimal, ties included
FineLandmarkA == NormalizedLandmark(1234, 1235, -1245, 9996, 10000)
FineLandmarkB == NormalizedLandmark(5, 15, -5, 0, 4)

FileLandmarks == {<<>>, <<<<FineLandmarkA>>>>, <<<<FineLandmarkA, FineLandmarkB>>>>,
                  <<<<FineLandmarkB>>, <<FineLandmarkA>>>>}
FilePoses == {Pose(l, t) : l \in FileLandmarks, t \in {0, 33}}
FileIntervals == {33, 100}

\* a landmark dict without one of its keys
LandmarkDictWithout(key) ==
    Dict([k \in LandmarkKeys \ {key} |-> 10])

GoodPoseDict == Pose_to_dict(Pose(<<<<FineLandmarkB>>>>, 33))

\* values handed to Pose.from_dict
TestPoseDicts ==
    {None, GoodPoseDict,
     Dict([timestamp_ms |-> 0]),
     Dict([landmarks |-> <<>>]),
     Dict([landmarks |-> <<>>, timestamp_ms |-> 0])}
    \cup {Dict([timestamp_ms |-> 0,
                landmarks |-> <<<<landmark_to_dict(FineLandmarkA),
                                  LandmarkDictWithout(key)>>>>]) : key \in LandmarkKeys}

\* the files found at the path
TestFiles ==
    {None, Some(NotJson), Some(JsonFile(<<>>)),
     Some(JsonFile(Dict([poses |-> <<GoodPoseDict>>]))),
     Some(JsonFile(Dict([time_between_poses_ms |-> 33]))),
     Some(JsonFile(Dict([time_between_poses_ms |-> 33,
                         poses |-> <<GoodPoseDict, Dict([timestamp_ms |-> 66])>>]))),
     Some(JsonFile(Dict([time_between_poses_ms |-> 33,
                         poses |-> <<GoodPoseDict, GoodPoseDict>>])))}

InitFile ==
    /\ poses \in SeqsUpTo(FilePoses, MaxFilePoses)
    /\ time_between_poses_ms \in FileIntervals
    /\ last_call = [op |-> "init"]
    /\ \E file \in TestFiles : InitGameWith([path \in Paths |-> file])

\* the Pose_Sequence object under test
Self == [Pose_Sequence(time_between_poses_ms) EXCEPT !.poses = poses]

\* a call of save_to_json_file: it assigns no attribute of self
SaveToJsonFile ==
    \E outcome \in WriteOutcomes :
        \E r \in {save_to_json_file(Self, disk, ThePath, outcome)} :
            /\ disk' = r.files
            /\ last_call' = [op |-> "save_to_json_file", outcome |-> outcome,
                             pre |-> Self, ret |-> r.ret, reported |-> r.reported]
            /\ UNCHANGED <<button, maker, poses, time_between_poses_ms, dances, clock,
                           selected_state, states, play, pose_model, video, scoreboards, last_tick, messages,
                           uncaught, budget>>

\* a call of the static method load_from_json_file
LoadFromJsonFile ==
    \E r \in {load_from_json_file(disk, ThePath)} :
        /\ last_call' = [op |-> "load_from_json_file", file |-> disk[ThePath],
                         ret |-> r.ret, opened |-> r.opened, reported |-> r.reported]
        /\ UNCHANGED <<button, maker, poses, time_between_poses_ms, game_vars>>

\* a call of the static method Pose.from_dict
FromDict ==
    \E pose_dict \in TestPoseDicts :
        /\ last_call' = [op |-> "from_dict", arg |-> pose_dict,
                         ret |-> Pose_from_dict(pose_dict)]
        /\ UNCHANGED <<button, maker, poses, time_between_poses_ms, game_vars>>

NextFile == SaveToJsonFile \/ LoadFromJsonFile \/ FromDict

SpecFile == InitFile /\ [][NextFile]_vars

(***************************************************************************)
(* The game started on dance folders of every shape.                       *)
(***************************************************************************)
\* what the dance folder may hold as its pose sequence file
DanceTestFiles ==
    {None, Some(NotJson),
     Some(JsonFile(Dict([time_between_poses_ms |-> 1000]))),
     Some(JsonFile(Dict([time_between_poses_ms |-> 1000,
                         poses |-> <<GoodPoseDict, Dict([timestamp_ms |-> 1000])>>]))),
     Some(DanceFile)}

InitLoad ==
    /\ poses = <<>>
    /\ time_between_poses_ms = 0
    /\ last_call = [op |-> "init"]
    /\ \E file \in DanceTestFiles : InitGameWith([path \in Paths |-> file])

SpecLoad == InitLoad /\ [][Next]_vars

(***************************************************************************)
(* Pose_Landmarker_Model under test: the landmarker thread's callbacks     *)
(* interleaved with process_frame and get_latest_result of the main loop.  *)
(***************************************************************************)
MaxFrameMs == 2         \* largest timestamp of a frame handed to the detector

InitDetector ==
    /\ poses = <<>>
    /\ time_between_poses_ms = 0
    /\ last_call = [op |-> "init"]
    /\ InitGame

\* a call of process_frame
ProcessFrame ==
    \E timestamp_ms \in 0..MaxFrameMs :
        /\ pose_model' = process_frame(pose_model, timestamp_ms)
        /\ last_call' = [op |-> "process_frame", arg |-> timestamp_ms]
        /\ UNCHANGED <<button, maker, poses, time_between_poses_ms, disk, dances, clock,
                       selected_state, states, play, video, scoreboards, last_tick,
                       messages, uncaught, budget>>

\* what the results delivered under test hold in pose_landmarks
DetectedLandmarks == {<<>>, <<BodyX>>, <<BodyB>>}

\* the landmarker answers the frame in flight
ResultCallback ==
    /\ pose_model.in_flight # None
    /\ \E landmarks \in DetectedLandmarks :
        /\ pose_model' = result_callback(pose_model, Result(landmarks),
                                         pose_model.in_flight[1])
        /\ last_call' = [op |-> "_result_callback", arg |-> Result(landmarks)]
    /\ UNCHANGED <<button, maker, poses, time_between_poses_ms, disk, dances, clock,
                   selected_state, states, play, video, scoreboards, last_tick,
                   messages, uncaught, budget>>

\* a call of get_latest_result: it assigns nothing
GetLatestResult ==
    /\ last_call' = [op |-> "get_latest_result", ret |-> get_latest_result(pose_model)]
    /\ UNCHANGED <<button, maker, poses, time_between_poses_ms, game_vars>>

NextDetector == ProcessFrame \/ ResultCallback \/ GetLatestResult

SpecDetector == InitDetector /\ [][NextDetector]_vars

(***************************************************************************)
(* Properties.                                                             *)
(***************************************************************************)
LookedUp == last_call.op = "get_closest_pose_at"

TimeDiff(ps, i, t) == Abs(ps[i].timestamp_ms - t)

\* C1: on a non-empty sequence, in whatever order its poses were added,
\* get_closest_pose_at(t) returns the pose of the first position at which
\* |timestamp_ms - t| is minimal: no pose is strictly nearer, and every pose
\* added before it is strictly farther.
ClosestPoseIsFirstNearest ==
    (LookedUp /\ last_call.pre # <<>>) =>
        LET ps == last_call.pre
            t == last_call.arg IN
        /\ last_call.ret.kind = "return"
        /\ \E i \in 1..Len(ps) :
            /\ last_call.ret.value = ps[i]
            /\ \A j \in 1..Len(ps) : TimeDiff(ps, j, t) >= TimeDiff(ps, i, t)
            /\ \A j \in 1..(i - 1) : TimeDiff(ps, j, t) > TimeDiff(ps, i, t)

\* a lookup in a sequence that is not sorted by time, in which two different
\* poses are equally near and nearest, answered with the one added first
ClosestPoseTieUnsorted ==
    /\ LookedUp
    /\ Len(last_call.pre) = 3
    /\ \E k \in 1..2 : last_call.pre[k].timestamp_ms > last_call.pre[k + 1].timestamp_ms
    /\ \E i \in 1..3, j \in 1..3 :
        /\ i < j
        /\ last_call.pre[i] # last_call.pre[j]
        /\ TimeDiff(last_call.pre, i, last_call.arg) = TimeDiff(last_call.pre, j, last_call.arg)
        /\ \A k \in 1..3 :
            TimeDiff(last_call.pre, k, last_call.arg) >= TimeDiff(last_call.pre, i, last_call.arg)
        /\ last_call.ret = Return(last_call.pre[i])

\* C10: get_closest_pose_at on a sequence without poses raises, for every query
\* timestamp; it returns neither a pose nor None, and the sequence stays empty.
EmptySequenceLookupFails ==
    (LookedUp /\ last_call.pre = <<>>) =>
        /\ last_call.ret.kind = "raise"
        /\ poses = <<>>

\* a lookup in the empty sequence that raised
EmptySequenceLookedUp ==
    /\ LookedUp
    /\ last_call.pre = <<>>
    /\ last_call.arg = MaxTimestamp
    /\ last_call.ret = Raise("ValueError")

\* C5: compare_poses returns None, and raises nothing, whenever either pose has
\* no landmark set.
NoLandmarkSetsGiveNone ==
    (/\ last_call.op = "compare_poses"
     /\ (last_call.pose1.landmarks = <<>> \/ last_call.pose2.landmarks = <<>>))
        => last_call.ret = Return(None)

\* compare_poses applied to a pose without landmark sets and one with a body
OnePoseWithoutLandmarksCompared ==
    /\ last_call.op = "compare_poses"
    /\ last_call.pose1.landmarks = <<BodyX>>
    /\ last_call.pose2.landmarks = <<>>
    /\ last_call.ret = Return(None)

\* C2: get_final_score is 0 when no batch has completed; otherwise, with m the
\* mean of the completed batch averages, it is 3 if m < 0.4, 2 if 0.4 <= m < 0.9,
\* 1 if 0.9 <= m < 1.6 and 0 if m >= 1.6, whatever the unfinished buffer holds.
FinalScoreClassifies ==
    last_call.op = "get_final_score" =>
        LET n == Len(play.batch_averages)
            total == Sum(play.batch_averages)
            score == last_call.ret IN
        /\ score \in 0..3
        /\ n = 0 => score = 0
        /\ n > 0 =>
            /\ score = 3 <=> total < 40 * n
            /\ score = 2 <=> (40 * n <= total /\ total < 90 * n)
            /\ score = 1 <=> (90 * n <= total /\ total < 160 * n)
            /\ score = 0 <=> 160 * n <= total

\* a score taken with a mean of exactly 0.4 while distances wait in the buffer
ScoredAtBoundWithBuffer ==
    /\ last_call.op = "get_final_score"
    /\ play.batch_averages = <<39, 41>>
    /\ play.current_distances = <<1000, 1000>>
    /\ last_call.ret = 2

PlayTicked == last_tick.state = "STATE_PLAY_DANCE"

Copies(n, d) == [k \in 1..n |-> d]

\* C3: in a session without a completed batch whose buffer holds k < 20
\* distances, all equal to d, a tick that accepts d once more leaves the batch
\* list empty and the displayed average at its default when k < 19, and when
\* k = 19 leaves exactly one batch average d, an empty buffer and the displayed
\* average d.
BatchOfTwentyCompletes ==
    (PlayTicked /\ last_tick.appended # None) =>
        LET pre == last_tick.pre
            d == last_tick.appended[1]
            k == Len(pre.current_distances) IN
        (pre.batch_averages = <<>> /\ pre.current_distances = Copies(k, d)) =>
            IF k < batch_size - 1
            THEN play.batch_averages = <<>> /\ play.current_batch_average = 200
            ELSE /\ play.batch_averages = <<d>>
                 /\ play.current_distances = <<>>
                 /\ play.current_batch_average = d

\* C4: the displayed current batch average is the last completed batch average,
\* or the initial default 2 while no batch has completed; the distances in the
\* unfinished buffer do not change it.
DisplayedAverageIsLastBatch ==
    play.session > 0 =>
        play.current_batch_average =
            IF play.batch_averages = <<>> THEN 200
            ELSE play.batch_averages[Len(play.batch_averages)]

\* a completed batch with further distances already in the buffer
BufferedAfterBatch ==
    /\ play.session > 0
    /\ play.batch_averages # <<>>
    /\ Len(play.current_distances) >= 2
    /\ play.current_batch_average = play.batch_averages[1]

\* C6: a tick of an active session whose comparison yields no result does not
\* fail and appends nothing (no zero either): the held distance, the buffer and
\* the batches are as before the tick.
NoResultHoldsDistance ==
    (PlayTicked /\ last_tick.compared /\ last_tick.appended = None) =>
        /\ uncaught = None
        /\ play.dist = last_tick.pre.dist
        /\ play.current_distances = last_tick.pre.current_distances
        /\ play.batch_averages = last_tick.pre.batch_averages

\* a comparison without result after distances had been accepted
NoResultAfterDistances ==
    /\ PlayTicked
    /\ last_tick.compared
    /\ last_tick.appended = None
    /\ last_tick.pre.dist = 40
    /\ play.dist = 40
    /\ play.current_distances = <<40, 40>>

\* C7 as claimed: a tick in Countdown makes the session Active exactly when the
\* time elapsed since the session was created is at least 4000 ms.
ActiveFromFourSeconds ==
    (PlayTicked /\ last_tick.pre.countdown_active) =>
        (play.dance_active <=> last_tick.elapsed >= countdown_length_ms)

\* C7 as amended: a tick in Countdown makes the session Active exactly when the
\* elapsed time exceeds 4000 ms; at exactly 4000 ms it stays in Countdown.
ActiveAfterFourSeconds ==
    (PlayTicked /\ last_tick.pre.countdown_active) =>
        /\ play.dance_active <=> last_tick.elapsed > countdown_length_ms
        /\ play.countdown_active <=> ~play.dance_active

\* a tick at exactly 4000 ms elapsed, after which the countdown shows GO
StillCountingAtFourSeconds ==
    /\ PlayTicked
    /\ last_tick.pre.countdown_active
    /\ last_tick.elapsed = countdown_length_ms
    /\ play.countdown_active
    /\ ~play.dance_active
    /\ play.countdown_text = "GO"

\* C8: a tick of a play session returns a score message exactly when the session
\* is Active and the reference video yields no frame; the message carries
\* get_final_score() of the accumulators as that tick left them, and no session
\* returns more than one.
ScoreEmittedAtVideoEnd ==
    /\ PlayTicked =>
        /\ last_tick.returned # None <=> (last_tick.danced /\ ~last_tick.video_ret)
        /\ last_tick.returned # None =>
            /\ last_tick.returned =
                    Some(<<"DANCE_SCORE", ToString(get_final_score(play.batch_averages))>>)
            /\ messages # <<>>
            /\ messages[Len(messages)] =
                    [session |-> play.session, key |-> last_tick.returned[1]]
    /\ \A i, j \in DOMAIN messages : messages[i].session = messages[j].session => i = j

\* the tick that ends a session with a completed batch
ScoreOfCompletedBatchEmitted ==
    /\ PlayTicked
    /\ play.batch_averages = <<40>>
    /\ last_tick.returned = Some(<<"DANCE_SCORE", "2">>)
    /\ Len(messages) = 1

Scored(session) == \E i \in DOMAIN messages : messages[i].session = session

\* C9: countdown_active and dance_active are never both set; a session that has
\* left Countdown stays Active; a session that has returned its score is not
\* updated again; and a Scoreboard, once created, keeps its score.
PhaseStep ==
    /\ play.session > 0 => ~(play.countdown_active /\ play.dance_active)
    /\ play'.session > 0 => ~(play'.countdown_active /\ play'.dance_active)
    /\ (play.session > 0 /\ play'.session = play.session /\ ~play.countdown_active)
            => (~play'.countdown_active /\ play'.dance_active)
    /\ (play'.session = play.session /\ Scored(play.session)) => play' = play
    /\ \A i \in DOMAIN scoreboards :
            i \in DOMAIN scoreboards' /\ scoreboards'[i] = scoreboards[i]
    /\ \A i \in DOMAIN scoreboards' :
            i \notin DOMAIN scoreboards =>
                /\ ~Scored(scoreboards'[i].session)
                /\ messages'[Len(messages')] =
                        [session |-> scoreboards'[i].session,
                         key |-> <<"DANCE_SCORE", scoreboards'[i].score>>]

SessionPhasesOnlyAdvance == [][PhaseStep]_vars

\* the scoreboard of a finished session has been updated
ScoreboardTickedAfterScore ==
    /\ last_tick.state = "STATE_SCOREBOARD"
    /\ Scored(play.session)
    /\ Len(scoreboards) = 1
    /\ scoreboards[1].session = play.session
    /\ play.dance_active

IsPrefix(s, t) == Len(s) <= Len(t) /\ \A i \in 1..Len(s) : t[i] = s[i]

\* C11: add_pose with a Pose succeeds whatever its timestamp, makes it the last
\* element and leaves the poses stored before it, and their order, as they
\* were; add_pose with anything else raises TypeError and leaves the sequence
\* unchanged; and no operation removes or reorders stored poses.
AddPoseStep ==
    /\ IsPrefix(poses, poses')
    /\ (last_call'.op = "add_pose" /\ last_call' # last_call) =>
        IF IsPose(last_call'.arg)
        THEN /\ last_call'.ret = Return(None)
             /\ last_call'.pre = poses
             /\ poses' = Append(poses, last_call'.arg)
        ELSE /\ last_call'.ret = Raise("TypeError")
             /\ poses' = poses

AddPoseAppendsOnly == [][AddPoseStep]_vars

\* a pose older than the last stored one has been added behind it
OlderPoseAddedLast ==
    /\ last_call.op = "add_pose"
    /\ Len(last_call.pre) = 2
    /\ IsPose(last_call.arg)
    /\ last_call.arg.timestamp_ms < last_call.pre[2].timestamp_ms
    /\ last_call.arg.timestamp_ms = last_call.pre[1].timestamp_ms
    /\ poses = Append(last_call.pre, last_call.arg)

LoadedFile == last_call.op = "load_from_json_file"

\* the file is JSON text of a dict without time_between_poses_ms or without poses
LacksSequenceKey(file) ==
    /\ file # None
    /\ file[1].format = "json"
    /\ IsDict(file[1].value)
    /\ (~HasKey(file[1].value, "time_between_poses_ms") \/ ~HasKey(file[1].value, "poses"))

\* C12 as claimed: loading a file that exists but lacks the key
\* time_between_poses_ms or the key poses raises to the caller of the load.
LoadLackingKeyRaises ==
    (LoadedFile /\ LacksSequenceKey(last_call.file)) => last_call.ret.kind = "raise"

\* C12 as amended: loading such a file yields no Pose_Sequence; the KeyError is
\* caught and reported inside load_from_json_file, which returns None.
LoadLackingKeyGivesNone ==
    (LoadedFile /\ LacksSequenceKey(last_call.file)) =>
        /\ last_call.ret = Return(None)
        /\ last_call.opened
        /\ last_call.reported = Some("KeyError")

\* a file without the key poses has been loaded
FileWithoutPosesLoaded ==
    /\ LoadedFile
    /\ last_call.file = Some(JsonFile(Dict([time_between_poses_ms |-> 33])))
    /\ last_call.ret = Return(None)

\* C13: load_from_json_file on a path without a file raises FileNotFoundError
\* to the caller, before the file is opened or parsed.
MissingFileRaisesBeforeOpen ==
    (LoadedFile /\ last_call.file = None) =>
        /\ last_call.ret = Raise("FileNotFoundError")
        /\ ~last_call.opened
        /\ last_call.reported = None

\* a load from a path without a file
MissingFileLoaded ==
    /\ LoadedFile
    /\ disk[ThePath] = None
    /\ last_call.file = None
    /\ last_call.ret.kind = "raise"

\* a value Pose.from_dict must refuse
Malformed(pose_dict) ==
    \/ ~IsDict(pose_dict)
    \/ ~HasKey(pose_dict, "landmarks")
    \/ ~HasKey(pose_dict, "timestamp_ms")
    \/ \E i \in DOMAIN pose_dict.items.landmarks :
        \E j \in DOMAIN pose_dict.items.landmarks[i] :
            LandmarkKeys \ DOMAIN pose_dict.items.landmarks[i][j].items # {}

\* C15: Pose.from_dict raises, and returns no Pose, when its input is not a
\* dict, lacks landmarks or timestamp_ms, or holds a landmark without one of
\* x, y, z, visibility, presence.
FromDictRefusesMalformed ==
    (last_call.op = "from_dict" /\ Malformed(last_call.arg)) =>
        /\ last_call.ret.kind = "raise"
        /\ last_call.ret.exc \in {"ValueError", "KeyError"}

\* from_dict applied to a dict whose second landmark has no presence
LandmarkWithoutPresenceRefused ==
    /\ last_call.op = "from_dict"
    /\ IsDict(last_call.arg)
    /\ HasKey(last_call.arg, "landmarks")
    /\ HasKey(last_call.arg, "timestamp_ms")
    /\ Len(last_call.arg.items.landmarks) = 1
    /\ Len(last_call.arg.items.landmarks[1]) = 2
    /\ DOMAIN last_call.arg.items.landmarks[1][2].items = LandmarkKeys \ {"presence"}
    /\ last_call.ret = Raise("KeyError")

\* C16: a save whose write fails reports the failure and returns normally, and
\* leaves time_between_poses_ms and poses of the sequence as they were.
FailedSaveReturns ==
    (last_call.op = "save_to_json_file" /\ last_call.outcome # "written") =>
        /\ last_call.ret = Return(None)
        /\ last_call.reported # None
        /\ Self = last_call.pre

\* a save of a sequence with poses that failed after the file was opened
SaveFailedWhileWriting ==
    /\ last_call.op = "save_to_json_file"
    /\ last_call.outcome = "dump fails"
    /\ Len(poses) = MaxFilePoses
    /\ disk[ThePath] = Some(NotJson)
    /\ last_call.ret = Return(None)

\* every field of landmark a is within 0.0005 of that field of landmark b
LandmarkNear(a, b) ==
    \A key \in LandmarkKeys : Abs(a[key] - b[key]) <= 5

\* pose a has the timestamp of pose b and the landmarks of b within 0.0005
PoseNear(a, b) ==
    /\ a.timestamp_ms = b.timestamp_ms
    /\ Len(a.landmarks) = Len(b.landmarks)
    /\ \A i \in DOMAIN a.landmarks :
        /\ Len(a.landmarks[i]) = Len(b.landmarks[i])
        /\ \A j \in DOMAIN a.landmarks[i] :
            LandmarkNear(a.landmarks[i][j], b.landmarks[i][j])

\* C17: the sequence load_from_json_file rebuilds from the saved to_dict() of a
\* sequence S has the time_between_poses_ms of S and as many poses, in the same
\* order, each with the same timestamp_ms and every landmark field within
\* 0.0005; and its to_dict() is that of S.
RoundTripWithinRounding ==
    (LoadedFile /\ last_call.file = Some(JsonFile(to_dict(Self)))) =>
        /\ last_call.ret.kind = "return"
        /\ last_call.ret.value # None
        /\ LET rebuilt == last_call.ret.value IN
            /\ rebuilt.time_between_poses_ms = time_between_poses_ms
            /\ Len(rebuilt.poses) = Len(poses)
            /\ \A i \in DOMAIN poses : PoseNear(rebuilt.poses[i], poses[i])
            /\ to_dict(rebuilt) = to_dict(Self)

\* a saved sequence of two different poses has been loaded, rounded
RoundedSequenceLoaded ==
    /\ LoadedFile
    /\ last_call.file = Some(JsonFile(to_dict(Self)))
    /\ poses = <<Pose(<<<<FineLandmarkA, FineLandmarkB>>>>, 33), Pose(<<>>, 0)>>
    /\ last_call.ret.kind = "return"
    /\ last_call.ret.value.poses # poses
    /\ last_call.ret.value.poses[1].landmarks[1][1].y = 1240
    /\ last_call.ret.value.poses[1].landmarks[1][1].z = -1240

\* the file cannot be deserialized into a pose sequence
FailsToDeserialize(file) == load_try(file).kind = "raise"

\* C14: when deserializing the pose sequence file of a dance folder fails, no
\* Dance is registered for the folder, and no play session exists whose
\* reference pose sequence is absent or holds fewer poses than the file.
NoDanceWithoutSequence ==
    /\ (disk[ThePath] # None /\ FailsToDeserialize(disk[ThePath][1])) => DOMAIN dances = {}
    /\ play.session > 0 =>
        /\ dance_pose_sequence(play) # None
        /\ disk[ThePath] # None
        /\ disk[ThePath][1].format = "json"
        /\ Len(dance_pose_sequence(play).poses) = Len(disk[ThePath][1].value.items.poses)

\* C18: the slot latest_result is written only by _result_callback, which puts
\* its result there whatever the slot held; get_latest_result returns what
\* the slot holds and changes nothing; and a slot that holds a result never
\* becomes None again.  (The slot is None at the start, so a read before the
\* first callback returns None, and a later one the result written last.)
MailboxStep ==
    /\ pose_model'.latest_result # pose_model.latest_result =>
            last_call'.op = "_result_callback"
    /\ (last_call'.op = "_result_callback" /\ last_call' # last_call) =>
            pose_model'.latest_result = Some(last_call'.arg)
    /\ (last_call'.op = "get_latest_result" /\ last_call' # last_call) =>
            /\ last_call'.ret = pose_model.latest_result
            /\ pose_model' = pose_model
    /\ pose_model.latest_result # None => pose_model'.latest_result # None

SlotIsLastWriterWins ==
    /\ pose_model.latest_result = None
    /\ [][MailboxStep]_vars

\* a read that returned the result written for the second frame answered,
\* while a third frame is in flight
SecondResultRead ==
    /\ last_call.op = "get_latest_result"
    /\ last_call.ret = Some(Result(<<BodyB>>))
    /\ pose_model.latest_image = Some(Image(MaxFrameMs))
    /\ pose_model.in_flight = Some(Image(0))

\* C19: the live pose a tick hands to the comparison carries the timestamp of
\* the frame for which the detector result it is built from was computed.
LivePoseCarriesDetectionTime ==
    (PlayTicked /\ last_tick.web_pose # None) =>
        last_tick.web_pose[1].timestamp_ms = last_tick.image[1].timestamp_ms

\* C20: compare_poses(p, q), where q is an identical copy of p and p has at
\* least one landmark set, returns the least distance, 0: it returns neither
\* None nor anything larger (nor nan).
IdenticalPosesAtMinimum ==
    (/\ last_call.op = "compare_poses"
     /\ last_call.pose2 = last_call.pose1
     /\ last_call.pose1.landmarks # <<>>)
        => last_call.ret = Return(Some(0))

Compared == last_call.op = "compare_poses"

\* both poses have a landmark set, and the first sets hold a zero vector or
\* differ in their number of landmarks
NumericalFailure(pose1, pose2) ==
    /\ pose1.landmarks # <<>>
    /\ pose2.landmarks # <<>>
    /\ \/ Degenerate(Points(pose1.landmarks[1]))
       \/ Degenerate(Points(pose2.landmarks[1]))
       \/ Len(pose1.landmarks[1]) # Len(pose2.landmarks[1])

\* C21: when a first landmark set holds a degenerate (zero) vector, or the
\* first landmark sets differ in shape, compare_poses returns None; it never
\* returns nan.
NumericalFailureGivesNone ==
    /\ (Compared /\ NumericalFailure(last_call.pose1, last_call.pose2))
            => last_call.ret = Return(None)
    /\ Compared => last_call.ret # Return(Some(NaN))

\* the poses have no landmark set, or first landmark sets with the same points
SameCoordinates(p, q) ==
    IF p.landmarks = <<>> \/ q.landmarks = <<>> THEN p.landmarks = q.landmarks
    ELSE /\ Len(p.landmarks[1]) = Len(q.landmarks[1])
         /\ \A k \in DOMAIN p.landmarks[1] :
                /\ p.landmarks[1][k].x = q.landmarks[1][k].x
                /\ p.landmarks[1][k].y = q.landmarks[1][k].y
                /\ p.landmarks[1][k].z = q.landmarks[1][k].z

\* C22: two calls of compare_poses whose first poses agree on the (x, y, z) of
\* their first landmark set, and whose second poses do, return the same
\* result, whatever their visibility, presence, timestamp_ms and further
\* landmark sets are.
CoordinatesStep ==
    (/\ Compared
     /\ last_call'.op = "compare_poses"
     /\ SameCoordinates(last_call.pose1, last_call'.pose1)
     /\ SameCoordinates(last_call.pose2, last_call'.pose2))
        => last_call'.ret = last_call.ret

ResultOfCoordinatesOnly == [][CoordinatesStep]_vars

\* a call on poses that agree in the points of their first landmark sets and
\* differ in visibility, presence, timestamp and further landmark sets,
\* answered as a call on identical poses is
DifferentPosesSameCoordinates ==
    /\ Compared
    /\ last_call.pose1 = Pose(<<BodyXFaint>>, 1)
    /\ last_call.pose2 = Pose(<<BodyX, BodyC>>, 0)
    /\ last_call.ret = compare_poses(last_call.pose2, last_call.pose2)
    /\ last_call.ret = Return(Some(0))

\* C23: within a play session the list of batch averages only grows, and the
\* buffer loses distances only by being cleared when a batch is completed; a
\* newly started session has an empty buffer, an empty batch list and the
\* default current average, whatever the sessions before it accumulated.
AccumulatorStep ==
    /\ (play.session > 0 /\ play'.session = play.session) =>
        /\ IsPrefix(play.batch_averages, play'.batch_averages)
        /\ ~IsPrefix(play.current_distances, play'.current_distances) =>
            /\ play'.current_distances = <<>>
            /\ Len(play'.batch_averages) = Len(play.batch_averages) + 1
    /\ play'.session # play.session =>
        /\ play'.current_distances = <<>>
        /\ play'.batch_averages = <<>>
        /\ play'.current_batch_average = 200

AccumulatorsResetOnlyByNewSession == [][AccumulatorStep]_vars

\* a second session, started after a session that completed a batch
SecondSessionStarted ==
    /\ play.session = 2
    /\ play.countdown_active
    /\ play.batch_averages = <<>>
    /\ Len(scoreboards) = 1
    /\ scoreboards[1] = Scoreboard(1, "2")

\* C24: a buffer that reaches batch_size is turned into a batch in the same
\* tick, the tick at which the reference video ends included: after every tick
\* of a session, and when its final score is computed, the buffer holds fewer
\* than batch_size distances (so that every 20 accumulated distances have made
\* a batch).
BufferBelowBatchSize ==
    play.session > 0 => Len(play.current_distances) < batch_size

\* C25: on every active tick that compares, the reference pose is
\* get_closest_pose_at(t) for t the position this tick moves the reference
\* video to, the time elapsed since start_dance.
ReferencePoseOfThisTick ==
    (PlayTicked /\ last_tick.compared) =>
        last_tick.video_pose =
            Some(get_closest_pose_at(dance_pose_sequence(play).poses,
                                     clock - play.dance_start_time_ms).value)

\* the accumulators of a session
Accumulators(p) ==
    <<p.current_distances, p.dist, p.batch_averages, p.current_batch_average>>

\* C26: an active tick appends at most one distance to the buffer; it appends
\* none, and leaves the buffer, the held distance, the batch list and the
\* current batch average as they were, when the webcam read fails, when no
\* detector result has arrived yet, or when the comparison yields no result.
AtMostOneDistancePerTick ==
    (PlayTicked /\ last_tick.danced) =>
        LET pre == last_tick.pre IN
        /\ \/ play.current_distances = pre.current_distances
           \/ \E d \in {play.dist} :
                \/ play.current_distances = Append(pre.current_distances, d)
                \/ /\ play.current_distances = <<>>
                   /\ Len(pre.current_distances) = batch_size - 1
                   /\ Len(play.batch_averages) = Len(pre.batch_averages) + 1
        /\ (\/ ~last_tick.webcam_ret
            \/ last_tick.result = None
            \/ (last_tick.compared /\ last_tick.appended = None))
                => Accumulators(play) = Accumulators(pre)

\* an active tick without webcam frame, with a result present and distances
\* in the buffer
TickWithoutWebcamFrame ==
    /\ PlayTicked
    /\ last_tick.danced
    /\ ~last_tick.webcam_ret
    /\ last_tick.result # None
    /\ Len(play.current_distances) = 2
    /\ Accumulators(play) = Accumulators(last_tick.pre)

\* the step is an active tick of the play session
ActiveTick == last_tick' # last_tick /\ last_tick'.state = "STATE_PLAY_DANCE" /\ last_tick'.danced

\* the tick before was an active one with a result, and the detector has
\* delivered no result since
NoNewResult ==
    /\ PlayTicked
    /\ last_tick.danced
    /\ last_tick.result # None
    /\ pose_model.latest_result = last_tick.result
    /\ pose_model.latest_image = last_tick.image

\* the tick compared the landmarks of result with the reference pose and
\* accumulated the distance, if the comparison gave one
ScoredResult(tick, result) ==
    /\ tick.compared
    /\ tick.web_pose[1].landmarks = result[1].pose_landmarks
    /\ tick.appended = compare_poses(tick.web_pose[1], tick.video_pose[1]).value

\* C27 as claimed: an active tick without a new result since the tick before
\* compares the previous result again and accumulates its distance again, and
\* the scoring step is skipped only while no result has arrived.
ReuseStepAlways ==
    ActiveTick =>
        /\ NoNewResult => ScoredResult(last_tick', last_tick.result)
        /\ ~last_tick'.compared <=> budget.results = 0

PreviousResultAlwaysReused == [][ReuseStepAlways]_vars

\* C27 as amended: an active tick whose webcam read succeeds and that has no
\* new result since the tick before compares the previous result again and
\* accumulates its distance again; the scoring step is skipped while no result
\* has arrived and on every tick whose webcam read fails.
ReuseStep ==
    ActiveTick =>
        /\ (NoNewResult /\ last_tick'.webcam_ret) => ScoredResult(last_tick', last_tick.result)
        /\ ~last_tick'.compared <=> (budget.results = 0 \/ ~last_tick'.webcam_ret)

PreviousResultReused == [][ReuseStep]_vars

\* the detection of the frame of 0 ms has put its third distance into the
\* buffer, two seconds later
DetectionScoredThreeTimes ==
    /\ PlayTicked
    /\ last_tick.compared
    /\ last_tick.image = Some(Image(0))
    /\ last_tick.web_pose[1].timestamp_ms >= 2000
    /\ last_tick.appended # None
    /\ budget.results = 1
    /\ Len(play.current_distances) = 3

(***************************************************************************)
(* Timer_Thread and Dance_Maker: recording a dance from the webcam, where  *)
(* a Timer_Thread calls _webcam_timer_callback while the capture loop of   *)
(* make_from_webcam runs, or from a video (make_from_video).               *)
(* time.perf_counter() is kept in microseconds: time.perf_counter() * 1000 *)
(* is a float of milliseconds, here a whole number of thousandths.         *)
(***************************************************************************)
MaxTicks == 12            \* perf_counter steps while the recording runs
MaxStartTicks == 2        \* those of them before the timer thread runs
StepUs == 10400           \* the time between two readings of perf_counter
SleepUs == 10000          \* time.sleep(0.01)
TimerIntervalMs == 50     \* Timer_Thread(50, self._webcam_timer_callback)

\* a number of milliseconds as a perf_counter() * 1000 value
Ms(n) == n * 1000

\* int(x) of a time x >= 0 in milliseconds
IntMs(x) == x \div 1000

\* Timer_Thread.__init__.  at is the position of run: "created" before
\* start(), "started" before run begins, "while" at the loop test, "body" at
\* line 58, "callback" inside self.callback, "sleep" in time.sleep, "exited"
\* after the loop.  invoked counts the callbacks invoked and fired those
\* invoked since the last loop test.  passed_time, which run writes and the
\* callback data repeats, is kept in the callback data only.
Timer_Thread(time_interval_ms) ==
    [time_interval_ms |-> time_interval_ms, running |-> TRUE,
     at |-> "created", start_time_ms |-> 0, interval_number |-> 0, wake_at |-> 0,
     invoked |-> 0, fired |-> 0]

\* Timer_Thread.stop
stop(t) == [t EXCEPT !.running = FALSE]

\* "if current_time_ms >= target_time_ms:" of run
Due(current_time_ms, target_time_ms) == current_time_ms >= target_time_ms

\* a mutant: a thread that has fallen behind catches up without sleeping
callback_returns_catching_up(t, now) ==
    IF now >= t.start_time_ms + Ms(t.time_interval_ms) * (t.interval_number + 1)
    THEN [t EXCEPT !.interval_number = @ + 1, !.at = "body"]
    ELSE [t EXCEPT !.interval_number = @ + 1, !.at = "sleep", !.wake_at = now + SleepUs]

\* run after self.callback has returned: interval_number += 1, time.sleep(0.01)
callback_returns(t, now) ==
    [t EXCEPT !.interval_number = @ + 1, !.at = "sleep", !.wake_at = now + SleepUs]

\* a mutant: the loop does not look at the flag
LoopGoesOnStopped(t) == TRUE

\* "while self.running:" of run
LoopGoesOn(t) == t.running

\* Dance_Maker.__init__ and _initialize_webcam_resources, at the entry of
\* make_from_webcam's loop; main is the line the capture loop is at and
\* callback holds the locals of _webcam_timer_callback while it runs
WebcamMaker ==
    [mode |-> "webcam", now |-> 0, main |-> "117", latest_rgb_frame |-> None,
     latest_pose |-> None, timer |-> Timer_Thread(TimerIntervalMs),
     callback |-> None, timestamp_ms |-> 0]

\* Dance_Maker.__init__ and _initialize_video_resources, at line 162 of
\* make_from_video; timestamp_ms is the local of that name
VideoMaker ==
    [mode |-> "video", now |-> 0, main |-> "166", latest_rgb_frame |-> None,
     latest_pose |-> None, timer |-> None, callback |-> None, timestamp_ms |-> 0]

\* the time_between_poses_ms that make_from_video is called with
RecordingIntervals == {8000, 12000}

InitRecord ==
    /\ poses = <<>>
    /\ button = None
    /\ \E m \in {WebcamMaker, VideoMaker} :
        /\ maker = m
        /\ IF m.mode = "webcam" THEN time_between_poses_ms = IntMs(Ms(TimerIntervalMs))
           ELSE time_between_poses_ms \in RecordingIntervals
    /\ disk = NoFiles
    /\ dances = load_dance_data(NoFiles)
    /\ last_call = [op |-> "init"]
    /\ clock = 0
    /\ selected_state = set_state(create_states, Str("STATE_MAIN_MENU")).manager.selected_state
    /\ states = create_states.states
    /\ play = [session |-> 0]
    /\ pose_model = Pose_Landmarker_Model
    /\ video = [opened |-> TRUE, pos_msec |-> 0]
    /\ scoreboards = <<>>
    /\ last_tick = [state |-> "none"]
    /\ messages = <<>>
    /\ uncaught = None
    /\ budget = [glitches |-> 0, results |-> 0, menu |-> 0]

\* what a step of the recording leaves alone besides the recording itself
record_state == <<button, dances, clock, selected_state, states, play, scoreboards, last_tick,
                  messages, uncaught, budget>>
record_rest == <<last_call, record_state>>

Webcam(line) == maker.mode = "webcam" /\ maker.main = line
TimerAt(at) == maker.mode = "webcam" /\ maker.timer.at = at

\* time passes.  The recording is followed for MaxTicks steps of the clock;
\* a thread that was stopped in its sleep is followed for the step that wakes
\* it.
Tick ==
    /\ maker.mode = "webcam"
    /\ \/ /\ maker.now < MaxTicks * StepUs
          /\ maker.timer.at \in {"created", "started"} =>
                maker.now < MaxStartTicks * StepUs
       \/ /\ ~maker.timer.running
          /\ maker.timer.at = "sleep"
          /\ maker.now < maker.timer.wake_at
          /\ maker.now < (MaxTicks + 1) * StepUs
    /\ maker' = [maker EXCEPT !.now = @ + StepUs]
    /\ UNCHANGED <<poses, time_between_poses_ms, disk, pose_model, video, record_rest>>

\* run, lines 53-54
TimerRun ==
    /\ TimerAt("started")
    /\ maker' = [maker EXCEPT !.timer.start_time_ms = maker.now,
                              !.timer.interval_number = 1,
                              !.timer.at = "while"]
    /\ UNCHANGED <<poses, time_between_poses_ms, disk, pose_model, video, record_rest>>

\* run, line 56: the loop test
TimerWhile ==
    /\ TimerAt("while")
    /\ maker' = [maker EXCEPT !.timer.at = IF LoopGoesOn(maker.timer) THEN "body"
                                            ELSE "exited",
                              !.timer.fired = 0]
    /\ UNCHANGED <<poses, time_between_poses_ms, disk, pose_model, video, record_rest>>

\* run, lines 58-66: the clock is read and the callback is invoked when due;
\* when it is not due the thread goes to sleep (line 69)
TimerBody ==
    /\ TimerAt("body")
    /\ LET t == maker.timer
           target_time_ms == t.start_time_ms + Ms(t.time_interval_ms) * t.interval_number
           current_time_ms == maker.now
           passed_time == current_time_ms - t.start_time_ms
           data == [current_time_ms |-> current_time_ms, passed_time_ms |-> passed_time]
       IN
       IF Due(current_time_ms, target_time_ms)
       THEN maker' = [maker EXCEPT !.timer.at = "callback",
                                   !.timer.invoked = @ + 1,
                                   !.timer.fired = @ + 1,
                                   !.callback = [at |-> "101", data |-> data]]
       ELSE maker' = [maker EXCEPT !.timer.at = "sleep",
                                   !.timer.wake_at = maker.now + SleepUs]
    /\ UNCHANGED <<poses, time_between_poses_ms, disk, pose_model, video, record_rest>>

\* run, line 69: time.sleep(0.01) returns
TimerWake ==
    /\ TimerAt("sleep")
    /\ maker.now >= maker.timer.wake_at
    /\ maker' = [maker EXCEPT !.timer.at = "while"]
    /\ UNCHANGED <<poses, time_between_poses_ms, disk, pose_model, video, record_rest>>

\* the callback returns to run
Returned(m) ==
    [m EXCEPT !.timer = callback_returns(m.timer, m.now), !.callback = None]

CallbackAt(line) == TimerAt("callback") /\ maker.callback.at = line

\* _webcam_timer_callback, line 101
CallbackCheck ==
    /\ CallbackAt("101")
    /\ maker' = IF maker.latest_rgb_frame = None THEN Returned(maker)
                ELSE [maker EXCEPT !.callback.at = "103"]
    /\ UNCHANGED <<poses, time_between_poses_ms, disk, pose_model, video, record_rest>>

\* _webcam_timer_callback, lines 103-104
CallbackSubmit ==
    /\ CallbackAt("103")
    /\ \E timestamp_ms \in {IntMs(maker.callback.data.passed_time_ms)} :
        /\ pose_model' = InFlight(process_frame(pose_model, timestamp_ms),
                                   budget.results)
        /\ maker' = [maker EXCEPT !.callback = [at |-> "106", data |-> @.data,
                                                timestamp_ms |-> timestamp_ms,
                                                frame |-> maker.latest_rgb_frame[1]]]
    /\ UNCHANGED <<poses, time_between_poses_ms, disk, video, record_rest>>

\* _webcam_timer_callback, lines 106-110
CallbackResult ==
    /\ CallbackAt("106")
    /\ \E result \in {get_latest_result(pose_model)} :
        IF result = None
        THEN /\ maker' = Returned(maker)
             /\ UNCHANGED <<poses, last_call>>
        ELSE \E pose \in {Pose(result[1].pose_landmarks, maker.callback.timestamp_ms)} :
             \E r \in {add_pose(poses, pose)} :
                /\ maker' = Returned([maker EXCEPT !.latest_pose = Some(pose)])
                /\ poses' = r.poses
                /\ last_call' = [op |-> "add_pose", pre |-> poses, arg |-> pose,
                                 ret |-> r.ret]
    /\ UNCHANGED <<time_between_poses_ms, disk, pose_model, video, record_state>>

\* make_from_webcam, lines 117-120: interval_timer.start()
WebcamStart ==
    /\ Webcam("117")
    /\ maker' = [maker EXCEPT !.main = "123", !.timer.at = "started"]
    /\ UNCHANGED <<poses, time_between_poses_ms, disk, pose_model, video, record_rest>>

\* make_from_webcam, lines 123-129: a frame is read; when there is none the
\* loop starts over
WebcamRead ==
    /\ Webcam("123")
    /\ \E ret \in BOOLEAN :
        /\ maker' = IF ret THEN [maker EXCEPT !.latest_rgb_frame = Some("clean"),
                                              !.main = "131"]
                    ELSE maker
    /\ UNCHANGED <<poses, time_between_poses_ms, disk, pose_model, video, record_rest>>

\* make_from_webcam, lines 131-133
WebcamAnnotate ==
    /\ Webcam("131")
    /\ maker' = IF maker.latest_pose # None
                THEN [maker EXCEPT !.latest_rgb_frame = Some("annotated"), !.main = "135"]
                ELSE [maker EXCEPT !.main = "135"]
    /\ UNCHANGED <<poses, time_between_poses_ms, disk, pose_model, video, record_rest>>

\* make_from_webcam, lines 135-143: the frame is shown and a key is read
WebcamShow ==
    /\ Webcam("135")
    /\ \E key \in {"q", "none"} :
        /\ maker' = [maker EXCEPT !.main = IF key = "q" THEN "149" ELSE "123"]
    /\ UNCHANGED <<poses, time_between_poses_ms, disk, pose_model, video, record_rest>>

\* _cleanup_webcam_resources, lines 88-92: interval_timer.stop()
WebcamStop ==
    /\ Webcam("149")
    /\ maker' = [maker EXCEPT !.main = "93", !.timer = stop(@)]
    /\ UNCHANGED <<poses, time_between_poses_ms, disk, pose_model, video, record_rest>>

\* a mutant: join returns while run is still running
join_returns_early(t) == t.at # "created"

\* Thread.join: it returns when run has returned
join_returns(t) == t.at = "exited"

\* _cleanup_webcam_resources, lines 93-94: interval_timer.join()
WebcamJoin ==
    /\ Webcam("93")
    /\ join_returns(maker.timer)
    /\ maker' = [maker EXCEPT !.main = "save"]
    /\ UNCHANGED <<poses, time_between_poses_ms, disk, pose_model, video, record_rest>>

\* make_from_webcam line 150 and make_from_video lines 183-186:
\* pose_sequence.save_to_json_file
RecordingSave ==
    /\ maker.main = "save"
    /\ \E outcome \in WriteOutcomes :
        \E r \in {save_to_json_file(Self, disk, ThePath, outcome)} :
            /\ disk' = r.files
            /\ last_call' = [op |-> "save_to_json_file", outcome |-> outcome,
                             pre |-> Self, ret |-> r.ret, reported |-> r.reported]
    /\ maker' = [maker EXCEPT !.main = "done"]
    /\ video' = IF maker.mode = "video" THEN release(video) ELSE video
    /\ UNCHANGED <<poses, time_between_poses_ms, pose_model, record_state>>

Video(line) == maker.mode = "video" /\ maker.main = line

\* make_from_video, lines 166-169
VideoRead ==
    /\ Video("166")
    /\ \E v \in {set_position_msec(video, maker.timestamp_ms)} :
        /\ video' = v
        /\ maker' = [maker EXCEPT !.main = IF read_frame_ret(v) THEN "171" ELSE "save"]
    /\ UNCHANGED <<poses, time_between_poses_ms, disk, pose_model, record_rest>>

\* make_from_video, lines 171-173
VideoSubmit ==
    /\ Video("171")
    /\ pose_model' = InFlight(process_frame(pose_model, maker.timestamp_ms),
                               budget.results)
    /\ maker' = [maker EXCEPT !.main = "174"]
    /\ UNCHANGED <<poses, time_between_poses_ms, disk, video, record_rest>>

\* make_from_video, lines 174-178
VideoResult ==
    /\ Video("174")
    /\ \E result \in {get_latest_result(pose_model)},
          timestamp_ms \in {maker.timestamp_ms + time_between_poses_ms} :
        /\ maker' = [maker EXCEPT !.main = "166", !.timestamp_ms = timestamp_ms]
        /\ IF result = None
           THEN UNCHANGED <<poses, last_call>>
           ELSE \E pose \in {Pose(result[1].pose_landmarks, timestamp_ms)} :
                \E r \in {add_pose(poses, pose)} :
                    /\ poses' = r.poses
                    /\ last_call' = [op |-> "add_pose", pre |-> poses, arg |-> pose,
                                     ret |-> r.ret,
                                     position |-> maker.timestamp_ms]
    /\ UNCHANGED <<time_between_poses_ms, disk, pose_model, video, record_state>>

\* the detector answers the frame in flight: _result_callback
RecordingDetectorCallback ==
    /\ pose_model.in_flight # None
    /\ budget.results < MaxResults
    /\ \E landmarks \in LiveLandmarks :
        pose_model' = result_callback(pose_model, Result(landmarks),
                                      pose_model.in_flight[1])
    /\ budget' = [budget EXCEPT !.results = @ + 1]
    /\ UNCHANGED <<button, maker, poses, time_between_poses_ms, disk, dances, last_call, clock,
                   selected_state, states, play, video,
                   scoreboards, last_tick, messages, uncaught>>

\* the steps of the timer thread
TimerThread ==
    \/ TimerRun
    \/ TimerWhile
    \/ TimerBody
    \/ TimerWake
    \/ CallbackCheck
    \/ CallbackSubmit
    \/ CallbackResult

NextRecord ==
    \/ Tick
    \/ TimerRun
    \/ TimerWhile
    \/ TimerBody
    \/ TimerWake
    \/ CallbackCheck
    \/ CallbackSubmit
    \/ CallbackResult
    \/ WebcamStart
    \/ WebcamRead
    \/ WebcamAnnotate
    \/ WebcamShow
    \/ WebcamStop
    \/ WebcamJoin
    \/ RecordingSave
    \/ VideoRead
    \/ VideoSubmit
    \/ VideoResult
    \/ RecordingDetectorCallback

SpecRecord == InitRecord /\ [][NextRecord]_vars

\* the timer thread scheduled fairly while time passes: every step of run and
\* of the callback is taken at some time, and time.sleep returns
SpecRecordFair == SpecRecord /\ WF_vars(TimerThread) /\ WF_vars(Tick)

\* run has begun
Running == maker.mode = "webcam" /\ maker.timer.at \notin {"created", "started"}

\* C29: the n-th callback of a Timer_Thread is invoked no earlier than
\* n * time_interval_ms after the start time of run and is passed a
\* passed_time_ms of at least n * time_interval_ms; at any moment the callbacks
\* invoked are at most floor(elapsed / time_interval_ms), and one loop
\* iteration invokes at most one callback.
CallbacksNoEarlierThanDue ==
    Running =>
        LET t == maker.timer
            due == Ms(t.time_interval_ms) * t.invoked IN
        /\ t.at = "callback" =>
            /\ maker.callback.data.current_time_ms >= t.start_time_ms + due
            /\ maker.callback.data.passed_time_ms >= due
        /\ t.invoked <= (maker.now - t.start_time_ms) \div Ms(t.time_interval_ms)
        /\ t.fired <= 1

\* the thread has fallen behind: its first callback is invoked when the second
\* one is due as well
FirstCallbackTwoIntervalsLate ==
    /\ TimerAt("callback")
    /\ maker.timer.invoked = 1
    /\ maker.timer.fired = 1
    /\ maker.callback.data.passed_time_ms >= 2 * Ms(maker.timer.time_interval_ms)

\* stop() has been called on the started thread
Stopped == maker.mode = "webcam" /\ maker.timer.at # "created" /\ ~maker.timer.running

\* run has returned
Exited == maker.mode = "webcam" /\ maker.timer.at = "exited"

\* a step after run has returned invokes no callback
NoCallbackAfterExit ==
    Exited => maker'.timer.at = "exited" /\ maker'.timer.invoked = maker.timer.invoked

\* C30: after stop() on a started Timer_Thread whose callback returns, run
\* exits, and after it has exited no callback is invoked.
StoppedTimerExits == (Stopped ~> Exited) /\ [][NoCallbackAfterExit]_vars

\* join has returned for a thread that had invoked callbacks
JoinedAfterCallbacks ==
    /\ Exited
    /\ maker.timer.invoked >= 1
    /\ maker.main = "save"

\* C28: the pose sequence that a recording builds, from the webcam or from a
\* video, has non-decreasing timestamp_ms in insertion order.
RecordedTimestampsNonDecreasing ==
    \A i \in 1..Len(poses), j \in 1..Len(poses) :
        i < j => poses[i].timestamp_ms <= poses[j].timestamp_ms

\* the timer callback has recorded two poses at different times
TwoPosesRecordedFromWebcam ==
    /\ maker.mode = "webcam"
    /\ Len(poses) >= 2
    /\ poses[1].timestamp_ms < poses[2].timestamp_ms

(***************************************************************************)
(* Game_State_Manager under test: add_state, set_state and the three       *)
(* dispatching methods, called in any order with any arguments.            *)
(***************************************************************************)
\* the names the calls are made with: the empty str, two more, and an int
ManagerNames == {Str(""), Str("A"), Str("B"), NotStr("7")}

\* the objects add_state is called with: two states and one that is none
ManagerStates == {State("Main_Menu", 1), State("Main_Menu", 2),
                  [class |-> "object", of |-> "object", ref |-> 0]}

\* the manager of the current state
Manager == [states |-> states, selected_state |-> selected_state]

InitManager ==
    /\ poses = <<>>
    /\ time_between_poses_ms = 0
    /\ last_call = [op |-> "init"]
    /\ disk = NoFiles
    /\ dances = load_dance_data(NoFiles)
    /\ clock = 0
    /\ selected_state = Game_State_Manager.selected_state
    /\ states = Game_State_Manager.states
    /\ play = [session |-> 0]
    /\ pose_model = Pose_Landmarker_Model
    /\ video = [opened |-> TRUE, pos_msec |-> 0]
    /\ scoreboards = <<>>
    /\ last_tick = [state |-> "none"]
    /\ messages = <<>>
    /\ uncaught = None
    /\ budget = [glitches |-> 0, results |-> 0, menu |-> 0]
    /\ maker = None
    /\ button = None

manager_rest == <<button, maker, poses, time_between_poses_ms, disk, dances, clock, play,
                  pose_model, video, scoreboards, last_tick, messages, uncaught, budget>>

\* a call of add_state
AddState ==
    \E name \in ManagerNames, state \in ManagerStates :
        \E r \in {add_state(Manager, name, state)} :
            /\ states' = r.manager.states
            /\ selected_state' = r.manager.selected_state
            /\ last_call' = [op |-> "add_state", name |-> name, state |-> state,
                             pre |-> Manager, ret |-> r.ret]
            /\ UNCHANGED manager_rest

\* a call of set_state
SetState ==
    \E name \in ManagerNames :
        \E r \in {set_state(Manager, name)} :
            /\ states' = r.manager.states
            /\ selected_state' = r.manager.selected_state
            /\ last_call' = [op |-> "set_state", name |-> name,
                             pre |-> Manager, ret |-> r.ret]
            /\ UNCHANGED manager_rest

\* a call of the dispatching method named op
Dispatch(op) ==
    /\ last_call' = [op |-> op, pre |-> Manager, ret |-> dispatch(Manager)]
    /\ UNCHANGED <<states, selected_state, manager_rest>>

HandleEvents == Dispatch("handle_events")
Update == Dispatch("update")
Render == Dispatch("render")

NextManager ==
    \/ AddState
    \/ SetState
    \/ HandleEvents
    \/ Update
    \/ Render

SpecManager == InitManager /\ [][NextManager]_vars

\* the call just made was one of handle_events, update and render
Dispatched == last_call.op \in {"handle_events", "update", "render"}

\* C31: set_state with a name that was never added raises ValueError and
\* leaves the selected state and the registered states as they were;
\* handle_events, update and render raise RuntimeError, and call no state,
\* when no state has been selected.
UnknownNameAndNoSelectionRefused ==
    /\ (last_call.op = "set_state" /\ ~Registered(last_call.pre, last_call.name)) =>
        /\ last_call.ret = Raise("ValueError")
        /\ Manager = last_call.pre
    /\ (Dispatched /\ last_call.pre.selected_state = None) =>
        last_call.ret = Raise("RuntimeError")

\* set_state was called with a name never added, while another state is
\* registered and selected
UnknownNameRefusedWhileSelected ==
    /\ last_call.op = "set_state"
    /\ last_call.name = Str("B")
    /\ DOMAIN states = {"A"}
    /\ selected_state = Some("A")

\* C32: the selected state is unset or the name of a registered state, and
\* update calls the state object registered last under the selected name.
UpdateReachesSelectedState ==
    /\ selected_state # None => selected_state[1] \in DOMAIN states
    /\ (last_call.op = "update" /\ last_call.pre.selected_state # None) =>
        last_call.ret =
            Return(last_call.pre.states[last_call.pre.selected_state[1]])

(***************************************************************************)
(* Game.run with states whose update may return any value: besides the     *)
(* keys of the buttons, a value that is not a str, the key of a dance that *)
(* is not loaded, and a str that is no key.                                *)
(***************************************************************************)
StrayValues == {Some(NotAStr), Some(<<"PLAY_DANCE", "5">>), Some(<<"HELLO">>)}

\* an iteration of Game.run in which the update of the selected menu state
\* returns one of these values
StrayTick ==
    \E state \in {"STATE_MAIN_MENU", "STATE_DANCE_SELECTION", "STATE_SCOREBOARD"} :
        Iteration(state, StrayValues)

NextGame ==
    \/ TickMainMenu
    \/ TickDanceSelection
    \/ TickScoreboard
    \/ TickPlayDance
    \/ DetectorCallback
    \/ StrayTick

SpecGame == Init /\ [][NextGame]_vars

\* the step is an iteration of Game.run; ReturnedValue is what update returned in it
IterationStep == clock' # clock
ReturnedValue == last_tick'.returned

\* the key returned in the step is that of a loaded dance
PlayKeyReturned ==
    /\ ReturnedValue # None
    /\ IsStr(ReturnedValue[1])
    /\ ReturnedValue[1][1] = "PLAY_DANCE"
    /\ ParseInt(ReturnedValue[1][2]) \in DanceIds

\* the step creates and selects a fresh play session of the dance returned
FreshSessionSelected ==
    /\ selected_state' = Some("STATE_PLAY_DANCE")
    /\ play' = Play_Dance(play.session + 1, ParseInt(ReturnedValue[1][2]), clock')
    /\ states'["STATE_PLAY_DANCE"] = State("Play_Dance", play'.session)

\* the step creates and selects a scoreboard that shows the score returned,
\* and it is a step of a play session
ScoreboardSelected ==
    /\ selected_state = Some("STATE_PLAY_DANCE")
    /\ selected_state' = Some("STATE_SCOREBOARD")
    /\ scoreboards' = Append(scoreboards, Scoreboard(play.session, ReturnedValue[1][2]))
    /\ states'["STATE_SCOREBOARD"] = State("Scoreboard", Len(scoreboards'))
    /\ messages'[Len(messages')] = [session |-> play.session, key |-> ReturnedValue[1]]

SwitchStep ==
    /\ selected_state' # selected_state =>
        /\ IterationStep
        /\ ReturnedValue # None
        /\ IsStr(ReturnedValue[1])
        /\ \/ /\ ReturnedValue[1] \in {<<"STATE_MAIN_MENU">>, <<"STATE_DANCE_SELECTION">>}
              /\ selected_state' = Some(ReturnedValue[1][1])
           \/ PlayKeyReturned /\ FreshSessionSelected
           \/ ReturnedValue[1][1] = "DANCE_SCORE" /\ ScoreboardSelected
    /\ (IterationStep /\ uncaught' = None) =>
        /\ (ReturnedValue # None /\ ReturnedValue[1] \in {<<"STATE_MAIN_MENU">>,
                                                 <<"STATE_DANCE_SELECTION">>}) =>
                selected_state' = Some(ReturnedValue[1][1])
        /\ PlayKeyReturned => FreshSessionSelected
        /\ (ReturnedValue # None /\ IsStr(ReturnedValue[1]) /\ ReturnedValue[1][1] = "DANCE_SCORE") =>
                ScoreboardSelected
        /\ (\/ ReturnedValue = None
            \/ ~IsStr(ReturnedValue[1])
            \/ ReturnedValue[1][1] = "PLAY_DANCE" /\ ~PlayKeyReturned) =>
                selected_state' = selected_state /\ states' = states

\* C33: the selected state changes only with the value that the update of the
\* current state returned: the two menu keys select those states, the key of
\* a loaded dance creates and selects a fresh play session, a score key
\* creates and selects a scoreboard showing that score, which is returned by
\* a play session only; None, a value that is not a str and the key of a dance
\* that is not loaded change nothing.
StateFollowsReturnedValue == [][SwitchStep]_vars

\* a second play session has been created from the dance selection, after
\* the scoreboard of the first
SecondSessionFromSelection ==
    /\ last_tick.state = "STATE_DANCE_SELECTION"
    /\ last_tick.returned = Some(<<"PLAY_DANCE", "0">>)
    /\ selected_state = Some("STATE_PLAY_DANCE")
    /\ play.session = 2
    /\ Len(scoreboards) = 1

(***************************************************************************)
(* Button_Base under test: events are delivered to handle_events and       *)
(* update is called, in any order, while the mouse moves.                  *)
(***************************************************************************)
MaxEvents == 4          \* events delivered to the button

NORMAL_STATE == 0
HOVERED_STATE == 1
PRESSED_STATE == 2

\* Button_Base.__init__
Button_Base ==
    [state |-> NORMAL_STATE,
     mouse_info |-> [button_pressed |-> FALSE, button_down |-> FALSE,
                     button_up |-> FALSE, inside_rect |-> FALSE]]

\* the types of the events delivered
EventTypes == {"MOUSEBUTTONDOWN", "MOUSEBUTTONUP", "MOUSEMOTION", "KEYDOWN"}

\* Button_Base.handle_events
button_handle_events(b, type) ==
    LET reset == [b.mouse_info EXCEPT !.button_pressed = FALSE, !.button_up = FALSE]
        down == IF type = "MOUSEBUTTONDOWN"
                THEN [reset EXCEPT !.button_pressed = TRUE, !.button_down = TRUE]
                ELSE reset
        up == IF type = "MOUSEBUTTONUP"
              THEN [down EXCEPT !.button_up = TRUE, !.button_down = FALSE]
              ELSE down
    IN [b EXCEPT !.mouse_info = up]

\* a mutant: a pressed button stays pressed while the cursor is inside
update_state_sticky(b) ==
    IF \/ b.mouse_info.button_pressed /\ b.mouse_info.inside_rect
       \/ b.state = PRESSED_STATE /\ b.mouse_info.inside_rect
    THEN [b EXCEPT !.state = PRESSED_STATE]
    ELSE IF b.mouse_info.inside_rect THEN [b EXCEPT !.state = HOVERED_STATE]
    ELSE [b EXCEPT !.state = NORMAL_STATE]

\* Button_Base.update_state
update_state(b) ==
    IF \/ b.mouse_info.button_pressed /\ b.mouse_info.inside_rect
       \/ b.state = PRESSED_STATE /\ b.mouse_info.button_down
    THEN [b EXCEPT !.state = PRESSED_STATE]
    ELSE IF b.mouse_info.inside_rect THEN [b EXCEPT !.state = HOVERED_STATE]
    ELSE [b EXCEPT !.state = NORMAL_STATE]

\* Button_Base.update with the cursor inside the rect or not: the button it
\* leaves and whether the callback was invoked
button_update(b, collides) ==
    LET b1 == [b EXCEPT !.mouse_info.inside_rect = collides]
        invoked == /\ b1.mouse_info.button_up
                   /\ b1.mouse_info.inside_rect
                   /\ b1.state = PRESSED_STATE
    IN [button |-> update_state(b1), invoked |-> invoked]

\* the button and its mouse at the start.  events, pairs and callbacks count
\* the events delivered, the MOUSEBUTTONDOWN / MOUSEBUTTONUP pairs among them
\* and the callbacks invoked; open tells that a MOUSEBUTTONDOWN has no
\* MOUSEBUTTONUP yet; click follows a click made with the cursor inside the
\* rect: "down" after its MOUSEBUTTONDOWN, "up" after its MOUSEBUTTONUP until
\* the next update
InitButtons ==
    {[self |-> Button_Base, cursor_inside |-> inside, events |-> 0, pairs |-> 0,
      open |-> FALSE, callbacks |-> 0, click |-> "none"] : inside \in BOOLEAN}

InitButton ==
    /\ poses = <<>>
    /\ time_between_poses_ms = 0
    /\ last_call = [op |-> "init"]
    /\ disk = NoFiles
    /\ dances = load_dance_data(NoFiles)
    /\ clock = 0
    /\ selected_state = Some("STATE_MAIN_MENU")
    /\ states = create_states.states
    /\ play = [session |-> 0]
    /\ pose_model = Pose_Landmarker_Model
    /\ video = [opened |-> TRUE, pos_msec |-> 0]
    /\ scoreboards = <<>>
    /\ last_tick = [state |-> "none"]
    /\ messages = <<>>
    /\ uncaught = None
    /\ budget = [glitches |-> 0, results |-> 0, menu |-> 0]
    /\ maker = None
    /\ button \in InitButtons

\* the click after an event of the type
Click(click, type, cursor_inside) ==
    IF ~cursor_inside THEN "none"
    ELSE IF type = "MOUSEBUTTONDOWN" THEN "down"
    ELSE IF type = "MOUSEBUTTONUP" THEN (IF click = "down" THEN "up" ELSE "none")
    ELSE click

\* an event is delivered: Game.run calls handle_events of the state, which
\* hands it to the button
ButtonHandleEvents ==
    /\ button.events < MaxEvents
    /\ \E type \in EventTypes :
        /\ button' = [button EXCEPT
                !.self = button_handle_events(@, type),
                !.events = @ + 1,
                !.open = IF type = "MOUSEBUTTONDOWN" THEN TRUE
                         ELSE IF type = "MOUSEBUTTONUP" THEN FALSE ELSE @,
                !.pairs = IF type = "MOUSEBUTTONUP" /\ button.open THEN @ + 1 ELSE @,
                !.click = Click(@, type, button.cursor_inside)]
        /\ last_call' = [op |-> "handle_events", type |-> type]
    /\ UNCHANGED <<maker, poses, time_between_poses_ms, game_vars>>

\* the cursor enters or leaves the rect
MouseMoves ==
    /\ button' = [button EXCEPT !.cursor_inside = ~@, !.click = "none"]
    /\ last_call' = [op |-> "mouse moves"]
    /\ UNCHANGED <<maker, poses, time_between_poses_ms, game_vars>>

\* a call of update
ButtonUpdate ==
    /\ button.callbacks <= MaxEvents
    /\ \E r \in {button_update(button.self, button.cursor_inside)} :
        /\ button' = [button EXCEPT
                !.self = r.button,
                !.callbacks = IF r.invoked THEN @ + 1 ELSE @,
                !.click = IF @ = "up" THEN "none" ELSE @]
        /\ last_call' = [op |-> "update", pre |-> button.self,
                         collides |-> button.cursor_inside,
                         click |-> button.click, invoked |-> r.invoked]
    /\ UNCHANGED <<maker, poses, time_between_poses_ms, game_vars>>

NextButton ==
    \/ ButtonHandleEvents
    \/ MouseMoves
    \/ ButtonUpdate

SpecButton == InitButton /\ [][NextButton]_vars

\* C34: the callback of a button is invoked only in an update in which the
\* mouse-up flag is set, the cursor is inside the rect and the button is in
\* PRESSED_STATE, and at most once for each MOUSEBUTTONDOWN / MOUSEBUTTONUP
\* pair.
CallbackOncePerClick ==
    /\ (last_call.op = "update" /\ last_call.invoked) =>
        /\ last_call.pre.mouse_info.button_up
        /\ last_call.collides
        /\ last_call.pre.state = PRESSED_STATE
    /\ button.callbacks <= button.pairs

\* an update finds the mouse-up flag still set by an earlier click whose
\* callback has been invoked
FlagStaysSetAfterCallback ==
    /\ last_call.op = "update"
    /\ last_call.pre.mouse_info.button_up
    /\ last_call.collides
    /\ ~last_call.invoked
    /\ button.callbacks = 1
    /\ button.pairs = 1

\* C35: after a MOUSEBUTTONDOWN and a later MOUSEBUTTONUP delivered with the
\* cursor inside the rect all the while, the next update invokes the callback.
ClickInvokesCallback ==
    (last_call.op = "update" /\ last_call.click = "up") => last_call.invoked

\* the tick just made is an active tick of the play session
ActiveTickOf(session) ==
    /\ last_tick.state = "STATE_PLAY_DANCE"
    /\ last_tick.pre.session = session
    /\ last_tick.danced

\* a released video stays released, and the tick that ends a session leaves
\* it released
VideoStaysReleased ==
    /\ ~video.opened => ~video'.opened
    /\ (clock' # clock /\ last_tick'.state = "STATE_PLAY_DANCE"
            /\ last_tick'.returned # None) => ~video'.opened

\* every active tick of a later session is its first, reads no reference
\* frame and ends the session with no batch and the score 0
LaterSessionEndsAtOnce ==
    \A session \in 2..MaxMenuTicks :
        ActiveTickOf(session) =>
            /\ ~last_tick.pre.dance_active
            /\ ~last_tick.video_ret
            /\ play.batch_averages = <<>>
            /\ last_tick.returned = Some(ScoreMessage(0))

\* C36: the end of a play session releases the reference video of the dance
\* and nothing opens it again, so that every later session of the dance
\* reads no reference frame on its first active tick and ends there with no
\* completed batch and the final score 0.
ReplayedDanceScoresZero == [][VideoStaysReleased]_vars /\ []LaterSessionEndsAtOnce

\* the second session of the dance has ended on its first active tick
SecondSessionEndedAtOnce ==
    /\ ActiveTickOf(2)
    /\ last_tick.returned = Some(ScoreMessage(0))
    /\ Len(scoreboards) = 2
    /\ selected_state = Some("STATE_SCOREBOARD")

\* the capture loop of make_from_webcam is at the save or past it
Saving == maker.mode = "webcam" /\ maker.main \in {"save", "done"}

\* no pose is appended while or after the sequence is saved
NoAppendOnceSaving == Saving => poses' = poses

\* the file written holds every pose of the sequence
SavedRecordHoldsEveryPose ==
    (Saving /\ maker.main = "done" /\ last_call.op = "save_to_json_file"
        /\ last_call.outcome = "written")
    => /\ last_call.pre.poses = poses
       /\ disk[ThePath] = Some(JsonFile(to_dict(Self)))

\* C37: in webcam recording the pose sequence is saved only after the timer
\* thread was stopped and has exited, no pose is appended while or after it
\* is saved, and the saved record holds every pose the callback appended.
SavedAfterTimerJoined ==
    /\ [](Saving => (Stopped /\ Exited))
    /\ [][NoAppendOnceSaving]_vars
    /\ []SavedRecordHoldsEveryPose

\* a webcam recording of two poses has been written
WebcamRecordWritten ==
    /\ Saving
    /\ maker.main = "done"
    /\ last_call.op = "save_to_json_file"
    /\ last_call.outcome = "written"
    /\ Len(poses) = 2

\* C38: in webcam recording the frame that the timer callback submits to the
\* pose detector is a clean camera frame, never one on which the landmarks
\* of the previous pose have been drawn.
SubmittedFrameIsClean == CallbackAt("106") => maker.callback.frame = "clean"

\* C39: in make_from_video every pose appended to the sequence carries as
\* timestamp_ms the video position at which its frame was read and submitted
\* to the detector in the same loop iteration, so that the first recorded
\* pose has the timestamp 0 when the first frame yields a result.
PoseStampedWithReadPosition ==
    (maker.mode = "video" /\ last_call.op = "add_pose")
    => /\ last_call.arg.timestamp_ms = last_call.position
       /\ last_call.pre = <<>> => last_call.arg.timestamp_ms = 0

====
